---------------------------- MODULE Spec2Model ----------------------------
(***************************************************************************)
(* SpendingTracker data-service: the analytics pipeline of                 *)
(* app/api/analyze.py and app/api/forecast.py as a state machine.          *)
(*                                                                         *)
(* One request is one behaviour: Init draws the request's transaction list *)
(* and the wall clock, and a handler (analyze_spending, get_forecast)      *)
(* turns it into the response.                                             *)
(*                                                                         *)
(* The ai-agent-service (app/core/agent.py, app/api/advice.py,             *)
(* app/api/chat.py) is modelled beside it: agent is the FinancialAIAgent   *)
(* built at import, inquiry what a caller sends to /advice and /chat.      *)
(*                                                                         *)
(* Numbers.  The code computes in binary floating point; the model         *)
(* computes the same expressions in exact rational arithmetic.  An amount  *)
(* is an integer number of input units, Cent units making 0.01 of the      *)
(* currency, so that amounts finer than what round(x, 2) keeps exist.      *)
(* A value the code passes through round(x, 2) is reported as an integer   *)
(* number of hundredths; a value it reports unrounded is a rational        *)
(* <<numerator, denominator>> of hundredths in lowest terms.               *)
(***************************************************************************)
EXTENDS Integers, Sequences, FiniteSets, TLC

VARIABLES transactions, now, agent, inquiry, response

vars == <<transactions, now, agent, inquiry, response>>

(***************************************************************************)
(* Bounds of the model.                                                    *)
(***************************************************************************)
MaxTx == 3
MaxForecastMonths == 2
MaxOutlierTx == 8
MaxTrendTx == 3
MaxCalendarTx == 2
MaxSavingsTx == 3
MaxInsightTx == 7
MaxAdviceTx == 5
MaxCategoryTx == 3
MaxRecentTx == 6

\* The last day of the wall clock, in days since 2024-01-01.
MaxClockDay == 60

\* The longest lists of expenses whose amounts can cancel.
MaxZeroSumTx == 3

\* The longest lists for the spending patterns: over all fields, over the
\* weekday and weekend expenses, and over the three categories.
MaxPatternTx == 3

MaxWeekendTx == 5

MaxSpreadTx == 4

\* The resolution of amounts: the input units in 0.01 of the currency.
Cent == 5

\* The resolution of a square root: its value is kept to 1 / StdPrecision.
StdPrecision == 1000

(***************************************************************************)
(* Arithmetic.                                                             *)
(***************************************************************************)
Abs(x) == IF x < 0 THEN -x ELSE x

RECURSIVE GCD(_, _)
GCD(a, b) == IF b = 0 THEN Abs(a) ELSE GCD(b, a % Abs(b))

\* python's round(): the integer nearest to n/d (d > 0), a tie going to the
\* even neighbour.
RoundHalfEven(n, d) ==
    LET q == n \div d
        r == n - q * d
    IN  IF 2 * r < d THEN q
        ELSE IF 2 * r > d THEN q + 1
        ELSE IF q % 2 = 0 THEN q ELSE q + 1

\* The rational n/d (d # 0) in lowest terms, with a positive denominator.
Rat(n, d) ==
    LET g == GCD(n, d)
        s == IF d < 0 THEN -1 ELSE 1
    IN  <<(s * n) \div g, (s * d) \div g>>

RatLess(p, q) == p[1] * q[2] < q[1] * p[2]

RatSub(p, q) == Rat(p[1] * q[2] - q[1] * p[2], p[2] * q[2])

RatAdd(p, q) == Rat(p[1] * q[2] + q[1] * p[2], p[2] * q[2])

\* The product, cancelling across before multiplying.
RatMul(p, q) ==
    LET a == Rat(p[1], q[2])
        b == Rat(q[1], p[2])
    IN  Rat(a[1] * b[1], a[2] * b[2])

\* RatMax0 without the clamp.
RatUnclamped(p) == p

\* max(0, p)
RatMax0(p) == IF p[1] < 0 THEN <<0, 1>> ELSE p

\* round(x, 0) of the rational p, as a rational.
RatRound(p) == <<RoundHalfEven(p[1], p[2]), 1>>

RECURSIVE SumSeq(_)
SumSeq(s) == IF s = <<>> THEN 0 ELSE Head(s) + SumSeq(Tail(s))

RECURSIVE GCDSeq(_)
GCDSeq(s) == IF s = <<>> THEN 0 ELSE GCD(Head(s), GCDSeq(Tail(s)))

\* round(x, 2) of an amount of n/d input units, in hundredths.
Round2(n, d) == RoundHalfEven(n, Cent * d)

\* The largest r in lo..hi with r * r <= n, by bisection (lo * lo <= n).
RECURSIVE ISqrtIn(_, _, _)
ISqrtIn(n, lo, hi) ==
    IF lo >= hi THEN lo
    ELSE LET mid == (lo + hi + 1) \div 2
         IN  IF mid * mid <= n THEN ISqrtIn(n, mid, hi)
             ELSE ISqrtIn(n, lo, mid - 1)

\* The largest r with r * r <= n (0 <= n < 2^31).
ISqrt(n) == ISqrtIn(n, 0, IF n < 46340 THEN n ELSE 46340)

(***************************************************************************)
(* The calendar: a day is a number of days since 2024-01-01, a month a     *)
(* number of months since year 0 (pandas' Period('M') ordering).           *)
(***************************************************************************)
IsLeap(y) == (y % 4 = 0 /\ y % 100 # 0) \/ y % 400 = 0

DaysInMonth(y, m) ==
    IF m = 2 THEN (IF IsLeap(y) THEN 29 ELSE 28)
    ELSE IF m \in {4, 6, 9, 11} THEN 30 ELSE 31

RECURSIVE MonthFrom(_, _, _)
MonthFrom(y, m, d) ==
    IF d < DaysInMonth(y, m) THEN y * 12 + (m - 1)
    ELSE MonthFrom(IF m = 12 THEN y + 1 ELSE y,
                   IF m = 12 THEN 1 ELSE m + 1,
                   d - DaysInMonth(y, m))

\* dt.to_period('M') and strftime("%Y-%m"): the month a day falls in.
MonthOf(day) == MonthFrom(2024, 1, day)

\* str(period): the label "YYYY-MM" as <<year, month>>.
MonthLabel(mi) == <<mi \div 12, (mi % 12) + 1>>

(***************************************************************************)
(* The request.  A transaction is [id, description, amount, type,          *)
(* category, date]: category is NoCategory (None) or a label, date is a    *)
(* string, modelled by what datetime.fromisoformat makes of it:            *)
(* [fmt |-> "iso", day] a date without offset, [fmt |-> "isoZ", day] one   *)
(* with a trailing Z, [fmt |-> "bad"] one that does not parse.             *)
(***************************************************************************)
NoCategory == "<None>"

IsoDate(day) == [fmt |-> "iso", day |-> day]

IsoZDate(day) == [fmt |-> "isoZ", day |-> day]

BadDate == [fmt |-> "bad", day |-> 0]

\* The category labels in str order, as pandas' groupby sorts its keys.
CategoryOrder == <<"Food", "Rent", "Uncategorized">>

CategoryRank(c) == CHOOSE i \in 1..Len(CategoryOrder) : CategoryOrder[i] = c

\* datetime.fromisoformat(t.date.replace('Z', '+00:00')), and datetime.now()
\* when it raises: the day and whether the datetime carries an offset.
parse_date(date, clock) ==
    IF date.fmt = "bad" THEN [day |-> clock, aware |-> FALSE]
    ELSE [day |-> date.day, aware |-> (date.fmt = "isoZ")]

\* The rows of pd.DataFrame(data) with df['month'], in input order.
transactions_to_dataframe(txs, clock) ==
    [i \in 1..Len(txs) |->
        [id          |-> txs[i].id,
         description |-> txs[i].description,
         amount      |-> txs[i].amount,
         type        |-> txs[i].type,
         category    |-> IF txs[i].category \in {NoCategory, ""}
                         THEN "Uncategorized" ELSE txs[i].category,
         date        |-> parse_date(txs[i].date, clock).day,
         month       |-> MonthOf(parse_date(txs[i].date, clock).day)]]

\* df['date'].dt exists only for a column pandas could make datetime64: the
\* datetimes all without offset or all with the same one.  Otherwise the
\* column is of dtype object and .dt raises AttributeError.
datetimelike(txs, clock) ==
    \A i, j \in 1..Len(txs) :
        parse_date(txs[i].date, clock).aware = parse_date(txs[j].date, clock).aware

\* df[df['type'] == kind]
rows_of_type(df, kind) == SelectSeq(df, LAMBDA r : r.type = kind)

\* df['amount'].sum()
amount_sum(df) == SumSeq([i \in 1..Len(df) |-> df[i].amount])

\* The elements of a finite set of integers in ascending order.
RECURSIVE SortedSeq(_)
SortedSeq(S) ==
    IF S = {} THEN <<>>
    ELSE LET m == CHOOSE x \in S : \A y \in S : x <= y
         IN  <<m>> \o SortedSeq(S \ {m})

\* The distinct elements of a sequence, in the order of their first occurrence.
RECURSIVE first_seen(_)
first_seen(s) ==
    IF s = <<>> THEN <<>>
    ELSE <<Head(s)>> \o first_seen(SelectSeq(Tail(s), LAMBDA c : c # Head(s)))

\* category_keys with groupby(sort=False): the keys in first-seen order.
category_keys_first_seen(df) == first_seen([i \in 1..Len(df) |-> df[i].category])

\* The keys of df.groupby('category'), sorted.
category_keys(df) ==
    LET ranks == {CategoryRank(df[i].category) : i \in 1..Len(df)}
        order == SortedSeq(ranks)
    IN  [k \in 1..Len(order) |-> CategoryOrder[order[k]]]

\* The keys of df.groupby('month'), sorted.
month_keys(df) == SortedSeq({df[i].month : i \in 1..Len(df)})

(***************************************************************************)
(* analyze_transactions (app/api/analyze.py).                              *)
(***************************************************************************)
\* get_empty_analysis_result without the insight.
empty_result_without_insight ==
    [total_transactions      |-> 0,
     total_income            |-> 0,
     total_expenses          |-> 0,
     net_balance             |-> 0,
     category_breakdown      |-> <<>>,
     monthly_breakdown       |-> <<>>,
     top_spending_categories |-> <<>>,
     unusual_transactions    |-> <<>>,
     insights                |-> <<>>]

\* The result for an empty transaction list.
get_empty_analysis_result ==
    [total_transactions      |-> 0,
     total_income            |-> 0,
     total_expenses          |-> 0,
     net_balance             |-> 0,
     category_breakdown      |-> <<>>,
     monthly_breakdown       |-> <<>>,
     top_spending_categories |-> <<>>,
     unusual_transactions    |-> <<>>,
     insights |-> <<[text |-> "Add transactions to get spending insights.",
                     args |-> <<>>]>>]

\* calculate_percentage without the factor 100: the fraction of the total.
calculate_fraction(part, total) ==
    IF total > 0
    THEN LET f == Rat(part, total) IN RoundHalfEven(100 * f[1], f[2])
    ELSE 0

\* total_spent / total * 100 if total > 0 else 0, through round(x, 2): in
\* hundredths of a percent.
calculate_percentage(part, total) ==
    IF total > 0
    THEN LET f == Rat(part, total) IN RoundHalfEven(10000 * f[1], f[2])
    ELSE 0

\* expenses_df.groupby('category').agg(sum, count, mean) with the percentage
\* and trend columns: one entry per category, in the order of the keys.
category_stats(expenses_df) ==
    LET keys  == category_keys(expenses_df)
        total == amount_sum(expenses_df)
    IN  [k \in 1..Len(keys) |->
            LET grp == SelectSeq(expenses_df, LAMBDA r : r.category = keys[k])
            IN  [category            |-> keys[k],
                 total_spent         |-> Round2(amount_sum(grp), 1),
                 transaction_count   |-> Len(grp),
                 average_transaction |-> Round2(amount_sum(grp), Len(grp)),
                 percentage_of_total |-> calculate_percentage(amount_sum(grp), total),
                 trend               |-> "stable"]]

\* list.sort(key=total_spent, reverse=True): descending, and stable (entries
\* of equal key keep their order).
RECURSIVE sort_by_total_spent(_)
sort_by_total_spent(s) ==
    IF s = <<>> THEN <<>>
    ELSE LET i == CHOOSE i \in 1..Len(s) :
                    /\ \A j \in 1..Len(s) : s[j].total_spent <= s[i].total_spent
                    /\ \A j \in 1..(i - 1) : s[j].total_spent < s[i].total_spent
             rest == [j \in 1..(Len(s) - 1) |-> IF j < i THEN s[j] ELSE s[j + 1]]
         IN  <<s[i]>> \o sort_by_total_spent(rest)

\* top_category_of over the keys in first-seen order: of the categories that
\* hold the largest sum, the one met first in the month's rows.
top_category_first_seen(month_expenses) ==
    IF month_expenses = <<>> THEN "N/A"
    ELSE LET keys == category_keys_first_seen(month_expenses)
             sum(k) == amount_sum(SelectSeq(month_expenses,
                                            LAMBDA r : r.category = keys[k]))
             best == CHOOSE k \in 1..Len(keys) :
                        /\ \A j \in 1..Len(keys) : sum(j) <= sum(k)
                        /\ \A j \in 1..(k - 1) : sum(j) < sum(k)
         IN  keys[best]

\* month_expenses.groupby('category')['amount'].sum().idxmax(): the first
\* key, in the order of the keys, that holds the largest sum; "N/A" for a
\* month without expenses.
top_category_of(month_expenses) ==
    IF month_expenses = <<>> THEN "N/A"
    ELSE LET keys == category_keys(month_expenses)
             sum(k) == amount_sum(SelectSeq(month_expenses,
                                            LAMBDA r : r.category = keys[k]))
             best == CHOOSE k \in 1..Len(keys) :
                        /\ \A j \in 1..Len(keys) : sum(j) <= sum(k)
                        /\ \A j \in 1..(k - 1) : sum(j) < sum(k)
         IN  keys[best]

\* monthly_breakdown_of with net_savings taken as spending - income.
monthly_breakdown_net_reversed(df) ==
    LET months == month_keys(df)
    IN  [k \in 1..Len(months) |->
            LET rows     == SelectSeq(df, LAMBDA r : r.month = months[k])
                income   == amount_sum(rows_of_type(rows, "INCOME"))
                spending == amount_sum(rows_of_type(rows, "EXPENSE"))
            IN  [month          |-> MonthLabel(months[k]),
                 total_spending |-> Round2(spending, 1),
                 total_income   |-> Round2(income, 1),
                 net_savings    |-> Round2(spending - income, 1),
                 top_category   |-> top_category_of(rows_of_type(rows, "EXPENSE"))]]

\* One entry per month of the frame (both types), ascending.
monthly_breakdown_of(df) ==
    LET months == month_keys(df)
    IN  [k \in 1..Len(months) |->
            LET rows     == SelectSeq(df, LAMBDA r : r.month = months[k])
                income   == amount_sum(rows_of_type(rows, "INCOME"))
                spending == amount_sum(rows_of_type(rows, "EXPENSE"))
            IN  [month          |-> MonthLabel(months[k]),
                 total_spending |-> Round2(spending, 1),
                 total_income   |-> Round2(income, 1),
                 net_savings    |-> Round2(income - spending, 1),
                 top_category   |-> top_category_of(rows_of_type(rows, "EXPENSE"))]]

\* The least number of expenses, exclusive, for the outlier detection.
OutlierMinCount == 5

\* The standard deviations above the mean that make an outlier.
OutlierSigmas == 2

\* amount > mean + sigmas * std (>= when not strict), std the sample standard
\* deviation (pandas' .std(), ddof = 1) of the n >= 2 expense amounts.  With
\* d(i) = n * a(i) - sum, mean = sum / n and std^2 = Sum d(i)^2 / (n^2 (n - 1)),
\* so the test is d > 0 and (n - 1) d^2 > sigmas^2 Sum d(i)^2; a common
\* factor g of the d(i) cancels.
exceeds_by(amount, expenses_df, sigmas, strict) ==
    LET n   == Len(expenses_df)
        sum == amount_sum(expenses_df)
        d   == [i \in 1..n |-> n * expenses_df[i].amount - sum]
        g   == GCDSeq(d)
        e   == (n * amount - sum) \div g
        sq  == SumSeq([i \in 1..n |-> (d[i] \div g) * (d[i] \div g)])
    IN  /\ g > 0
        /\ e > 0
        /\ IF strict THEN (n - 1) * e * e > sigmas * sigmas * sq
                     ELSE (n - 1) * e * e >= sigmas * sigmas * sq

\* above_threshold with >= for >.
above_or_at_threshold(amount, expenses_df) ==
    exceeds_by(amount, expenses_df, OutlierSigmas, FALSE)

\* threshold = mean_expense + 2 * std_expense; amount > threshold
above_threshold(amount, expenses_df) ==
    exceeds_by(amount, expenses_df, OutlierSigmas, TRUE)

\* unusual_transactions_of without the least count and with a threshold of
\* one standard deviation.
unusual_transactions_eager(expenses_df) ==
    LET outliers == SelectSeq(expenses_df,
                        LAMBDA r : exceeds_by(r.amount, expenses_df, 1, TRUE))
    IN  [k \in 1..Len(outliers) |->
            [id          |-> outliers[k].id,
             description |-> outliers[k].description,
             amount      |-> Round2(outliers[k].amount, 1),
             reason      |-> RoundHalfEven(
                                10 * outliers[k].amount * Len(expenses_df),
                                amount_sum(expenses_df))]]

\* The outlier detection: the expenses above the threshold, in input order,
\* when there are more than OutlierMinCount expenses.
unusual_transactions_of(expenses_df) ==
    IF Len(expenses_df) > OutlierMinCount
    THEN LET outliers == SelectSeq(expenses_df,
                             LAMBDA r : above_threshold(r.amount, expenses_df))
         IN  [k \in 1..Len(outliers) |->
                [id          |-> outliers[k].id,
                 description |-> outliers[k].description,
                 amount      |-> Round2(outliers[k].amount, 1),
                 \* round(amount / mean_expense, 1), in tenths
                 reason      |-> RoundHalfEven(
                                    10 * outliers[k].amount * Len(expenses_df),
                                    amount_sum(expenses_df))]]
    ELSE <<>>

\* insights_of as a first-match dispatch: only the first rule that matches
\* gives its message.
insights_first_match(category_breakdown, monthly_breakdown, unusual, total_income, net_balance) ==
    LET top ==
            IF category_breakdown # <<>>
            THEN <<[text |-> "Your highest spending category is",
                    args |-> <<category_breakdown[1].category,
                               category_breakdown[1].percentage_of_total>>]>>
            ELSE <<>>
        \* savings_rate = net_balance / total_income * 100
        savings ==
            IF total_income > 0
            THEN IF net_balance < 0
                 THEN <<[text |-> "You're spending more than you earn.",
                         args |-> <<>>]>>
                 ELSE IF 100 * net_balance < 20 * total_income
                 THEN <<[text |-> "Try to aim for 20% or more.",
                         args |-> Rat(100 * net_balance, total_income)]>>
                 ELSE <<[text |-> "Great job! You're saving",
                         args |-> Rat(100 * net_balance, total_income)]>>
            ELSE <<>>
        n == Len(monthly_breakdown)
        monthly ==
            IF n >= 2
            THEN LET recent == monthly_breakdown[n].total_spending
                     prev   == monthly_breakdown[n - 1].total_spending
                 IN  IF 10 * recent > 12 * prev
                     THEN <<[text |-> "Your spending increased by more than 20%",
                             args |-> <<>>]>>
                     ELSE IF 10 * recent < 8 * prev
                     THEN <<[text |-> "Your spending decreased by more than 20%",
                             args |-> <<>>]>>
                     ELSE <<>>
            ELSE <<>>
        outliers ==
            IF unusual # <<>>
            THEN <<[text |-> "unusually large transaction(s)",
                    args |-> <<Len(unusual)>>]>>
            ELSE <<>>
    IN  IF top # <<>> THEN top
        ELSE IF savings # <<>> THEN savings
        ELSE IF monthly # <<>> THEN monthly
        ELSE outliers

\* insights_of with a savings rate of exactly 20 still told to aim for 20%.
insights_aim_at_20(category_breakdown, monthly_breakdown, unusual, total_income, net_balance) ==
    LET top ==
            IF category_breakdown # <<>>
            THEN <<[text |-> "Your highest spending category is",
                    args |-> <<category_breakdown[1].category,
                               category_breakdown[1].percentage_of_total>>]>>
            ELSE <<>>
        \* savings_rate = net_balance / total_income * 100
        savings ==
            IF total_income > 0
            THEN IF net_balance < 0
                 THEN <<[text |-> "You're spending more than you earn.",
                         args |-> <<>>]>>
                 ELSE IF 100 * net_balance <= 20 * total_income
                 THEN <<[text |-> "Try to aim for 20% or more.",
                         args |-> Rat(100 * net_balance, total_income)]>>
                 ELSE <<[text |-> "Great job! You're saving",
                         args |-> Rat(100 * net_balance, total_income)]>>
            ELSE <<>>
        n == Len(monthly_breakdown)
        monthly ==
            IF n >= 2
            THEN LET recent == monthly_breakdown[n].total_spending
                     prev   == monthly_breakdown[n - 1].total_spending
                 IN  IF 10 * recent > 12 * prev
                     THEN <<[text |-> "Your spending increased by more than 20%",
                             args |-> <<>>]>>
                     ELSE IF 10 * recent < 8 * prev
                     THEN <<[text |-> "Your spending decreased by more than 20%",
                             args |-> <<>>]>>
                     ELSE <<>>
            ELSE <<>>
        outliers ==
            IF unusual # <<>>
            THEN <<[text |-> "unusually large transaction(s)",
                    args |-> <<Len(unusual)>>]>>
            ELSE <<>>
    IN  top \o savings \o monthly \o outliers

\* insights_of comparing the first two months, not the last two.
insights_first_two_months(category_breakdown, monthly_breakdown, unusual, total_income, net_balance) ==
    LET top ==
            IF category_breakdown # <<>>
            THEN <<[text |-> "Your highest spending category is",
                    args |-> <<category_breakdown[1].category,
                               category_breakdown[1].percentage_of_total>>]>>
            ELSE <<>>
        \* savings_rate = net_balance / total_income * 100
        savings ==
            IF total_income > 0
            THEN IF net_balance < 0
                 THEN <<[text |-> "You're spending more than you earn.",
                         args |-> <<>>]>>
                 ELSE IF 100 * net_balance < 20 * total_income
                 THEN <<[text |-> "Try to aim for 20% or more.",
                         args |-> Rat(100 * net_balance, total_income)]>>
                 ELSE <<[text |-> "Great job! You're saving",
                         args |-> Rat(100 * net_balance, total_income)]>>
            ELSE <<>>
        n == Len(monthly_breakdown)
        monthly ==
            IF n >= 2
            THEN LET recent == monthly_breakdown[2].total_spending
                     prev   == monthly_breakdown[1].total_spending
                 IN  IF 10 * recent > 12 * prev
                     THEN <<[text |-> "Your spending increased by more than 20%",
                             args |-> <<>>]>>
                     ELSE IF 10 * recent < 8 * prev
                     THEN <<[text |-> "Your spending decreased by more than 20%",
                             args |-> <<>>]>>
                     ELSE <<>>
            ELSE <<>>
        outliers ==
            IF unusual # <<>>
            THEN <<[text |-> "unusually large transaction(s)",
                    args |-> <<Len(unusual)>>]>>
            ELSE <<>>
    IN  top \o savings \o monthly \o outliers

\* The insight rules, in order; args are the values a message formats.
insights_of(category_breakdown, monthly_breakdown, unusual, total_income, net_balance) ==
    LET top ==
            IF category_breakdown # <<>>
            THEN <<[text |-> "Your highest spending category is",
                    args |-> <<category_breakdown[1].category,
                               category_breakdown[1].percentage_of_total>>]>>
            ELSE <<>>
        \* savings_rate = net_balance / total_income * 100
        savings ==
            IF total_income > 0
            THEN IF net_balance < 0
                 THEN <<[text |-> "You're spending more than you earn.",
                         args |-> <<>>]>>
                 ELSE IF 100 * net_balance < 20 * total_income
                 THEN <<[text |-> "Try to aim for 20% or more.",
                         args |-> Rat(100 * net_balance, total_income)]>>
                 ELSE <<[text |-> "Great job! You're saving",
                         args |-> Rat(100 * net_balance, total_income)]>>
            ELSE <<>>
        n == Len(monthly_breakdown)
        monthly ==
            IF n >= 2
            THEN LET recent == monthly_breakdown[n].total_spending
                     prev   == monthly_breakdown[n - 1].total_spending
                 IN  IF 10 * recent > 12 * prev
                     THEN <<[text |-> "Your spending increased by more than 20%",
                             args |-> <<>>]>>
                     ELSE IF 10 * recent < 8 * prev
                     THEN <<[text |-> "Your spending decreased by more than 20%",
                             args |-> <<>>]>>
                     ELSE <<>>
            ELSE <<>>
        outliers ==
            IF unusual # <<>>
            THEN <<[text |-> "unusually large transaction(s)",
                    args |-> <<Len(unusual)>>]>>
            ELSE <<>>
    IN  top \o savings \o monthly \o outliers

\* first n elements of s: s[:n]
Take(s, n) == SubSeq(s, 1, IF Len(s) < n THEN Len(s) ELSE n)

analyze_transactions(txs, clock) ==
    IF txs = <<>> THEN get_empty_analysis_result
    ELSE
    LET df             == transactions_to_dataframe(txs, clock)
        total_income   == amount_sum(rows_of_type(df, "INCOME"))
        total_expenses == amount_sum(rows_of_type(df, "EXPENSE"))
        net_balance    == total_income - total_expenses
        expenses_df    == rows_of_type(df, "EXPENSE")
        category_breakdown == sort_by_total_spent(category_stats(expenses_df))
        monthly_breakdown  == monthly_breakdown_of(df)
        unusual            == unusual_transactions_of(expenses_df)
    IN  [total_transactions      |-> Len(txs),
         total_income            |-> Round2(total_income, 1),
         total_expenses          |-> Round2(total_expenses, 1),
         net_balance             |-> Round2(net_balance, 1),
         category_breakdown      |-> category_breakdown,
         monthly_breakdown       |-> monthly_breakdown,
         top_spending_categories |->
            [k \in 1..Len(Take(category_breakdown, 5)) |->
                category_breakdown[k].category],
         unusual_transactions    |-> unusual,
         insights |-> insights_of(category_breakdown, monthly_breakdown,
                                  unusual, total_income, net_balance)]

\* df.nlargest(n, 'date'): the n rows of the latest dates, latest first, rows
\* of equal date in their order in the frame.
RECURSIVE nlargest_by_date(_, _)
nlargest_by_date(n, df) ==
    IF n = 0 \/ df = <<>> THEN <<>>
    ELSE LET i == CHOOSE i \in 1..Len(df) :
                    /\ \A j \in 1..Len(df) : df[j].date <= df[i].date
                    /\ \A j \in 1..(i - 1) : df[j].date < df[i].date
             rest == [j \in 1..(Len(df) - 1) |-> IF j < i THEN df[j] ELSE df[j + 1]]
         IN  <<df[i]>> \o nlargest_by_date(n - 1, rest)

\* The number of recent transactions of the category detail.
RecentCount == 5

\* The least and the greatest amount of a non-empty frame.
amount_min(df) ==
    CHOOSE a \in {df[i].amount : i \in 1..Len(df)} :
        \A i \in 1..Len(df) : a <= df[i].amount

amount_max(df) ==
    CHOOSE a \in {df[i].amount : i \in 1..Len(df)} :
        \A i \in 1..Len(df) : a >= df[i].amount

\* The body of analyze_category for the transactions whose category is the
\* requested one, compared as given (t.category == category).  nlargest
\* raises TypeError on a 'date' column of dtype object.
category_detail(category, txs, clock) ==
    LET matching == SelectSeq(txs, LAMBDA t : t.category = category)
        df       == transactions_to_dataframe(matching, clock)
        recent   == nlargest_by_date(RecentCount, df)
    IN  IF matching = <<>> THEN [kind |-> "error", op |-> "analyze_category",
                                 status |-> 404]
        ELSE IF ~datetimelike(matching, clock)
        THEN [kind |-> "error", op |-> "analyze_category", status |-> 500]
        ELSE [kind   |-> "category",
              result |->
                [category            |-> category,
                 total_spent         |-> Round2(amount_sum(df), 1),
                 transaction_count   |-> Len(df),
                 average_transaction |-> Round2(amount_sum(df), Len(df)),
                 min_transaction     |-> Round2(amount_min(df), 1),
                 max_transaction     |-> Round2(amount_max(df), 1),
                 recent_transactions |->
                    [k \in 1..Len(recent) |->
                        [description |-> recent[k].description,
                         amount      |-> Round2(recent[k].amount, 1),
                         date        |-> recent[k].date]]]]

(***************************************************************************)
(* calculate_forecast (app/api/forecast.py).  Every number of the result   *)
(* is a rational <<n, d>>: hundredths of the currency, or percent for      *)
(* savings_rate.                                                           *)
(***************************************************************************)
\* monthly_totals with every month from the first to the last, a month
\* without a transaction of that type counting 0.
monthly_totals_zero_filled(df, kind) ==
    LET rows   == rows_of_type(df, kind)
        months == month_keys(rows)
        span   == IF months = <<>> THEN 0
                  ELSE months[Len(months)] - months[1] + 1
    IN  [k \in 1..span |->
            amount_sum(SelectSeq(rows, LAMBDA r : r.month = months[1] + k - 1))]

\* df[df['type'] == kind].groupby('month')['amount'].sum(): the totals of the
\* months that hold a transaction of that type, in ascending month order.
monthly_totals(df, kind) ==
    LET rows   == rows_of_type(df, kind)
        months == month_keys(rows)
    IN  [k \in 1..Len(months) |->
            amount_sum(SelectSeq(rows, LAMBDA r : r.month = months[k]))]

\* series.mean() if len(series) > 0 else 0, in hundredths.
mean_or_zero(series) ==
    IF Len(series) > 0 THEN Rat(SumSeq(series), Len(series) * Cent) ELSE <<0, 1>>

\* savings_rate_of giving the share spent, avg_spending / avg_income * 100.
savings_rate_of_share_spent(avg_income, avg_spending) ==
    IF avg_income[1] > 0
    THEN RatMul(RatMul(avg_spending, <<avg_income[2], avg_income[1]>>), <<100, 1>>)
    ELSE <<0, 1>>

\* (avg_income - avg_spending) / avg_income * 100 if avg_income > 0 else 0
savings_rate_of(avg_income, avg_spending) ==
    IF avg_income[1] > 0
    THEN RatMul(RatMul(RatSub(avg_income, avg_spending),
                       <<avg_income[2], avg_income[1]>>), <<100, 1>>)
    ELSE <<0, 1>>

\* forecast_range one point short.
forecast_range_short(months) == 1..(months - 1)

\* range(months): the forecast points, numbered from 1.
forecast_range(months) == 1..months

\* strftime("%Y-%m") of current_date + timedelta(days=30 * (i + 1)), i from 0.
forecast_month(clock, i) == MonthLabel(MonthOf(clock + 30 * (i + 1)))

\* The slope threshold of the trend label, in currency units per month.
SlopeThreshold == 50

\* LinearRegression().fit(X, y) on X = 0 .. n - 1: ordinary least squares,
\* slope = num / den in input units per month.
regression(y) ==
    LET n   == Len(y)
        sx  == SumSeq([i \in 1..n |-> i - 1])
        sxx == SumSeq([i \in 1..n |-> (i - 1) * (i - 1)])
        sy  == SumSeq(y)
        sxy == SumSeq([i \in 1..n |-> (i - 1) * y[i]])
    IN  [n |-> n, sx |-> sx, sy |-> sy,
         num |-> n * sxy - sx * sy,
         den |-> n * sxx - sx * sx]

\* model.predict([[x]])[0]: mean(y) + slope * (x - mean(X)), in hundredths.
predict(fit, x) ==
    Rat(fit.sy * fit.den + fit.num * (fit.n * x - fit.sx),
        fit.n * fit.den * Cent)

\* trend_of with the threshold taken in hundredths: 0.50 a month.
trend_of_hundredths(fit) ==
    IF fit.num > SlopeThreshold * Cent * fit.den THEN "increasing"
    ELSE IF fit.num < -(SlopeThreshold * Cent * fit.den) THEN "decreasing"
    ELSE "stable"

\* trend_of with the thresholds themselves counted as a trend.
trend_of_inclusive(fit) ==
    IF fit.num >= SlopeThreshold * 100 * Cent * fit.den THEN "increasing"
    ELSE IF fit.num <= -(SlopeThreshold * 100 * Cent * fit.den) THEN "decreasing"
    ELSE "stable"

\* slope > 50 / slope < -50 / otherwise
trend_of(fit) ==
    IF fit.num > SlopeThreshold * 100 * Cent * fit.den THEN "increasing"
    ELSE IF fit.num < -(SlopeThreshold * 100 * Cent * fit.den) THEN "decreasing"
    ELSE "stable"

\* monthly_spending.std(): the sample standard deviation (ddof = 1) of n >= 2
\* monthly totals, in hundredths.  With d(i) = n * y(i) - sum and g their
\* greatest common divisor, std = (g / n) * sqrt(Sum (d(i)/g)^2 / (n - 1));
\* the square root is taken to 1 / StdPrecision.
std_of(y) ==
    LET n  == Len(y)
        sy == SumSeq(y)
        d  == [i \in 1..n |-> n * y[i] - sy]
        g  == GCDSeq(d)
        sq == SumSeq([i \in 1..n |-> (d[i] \div g) * (d[i] \div g)])
        root == ISqrt((sq * StdPrecision * StdPrecision) \div (n - 1))
    IN  IF g = 0 THEN <<0, 1>>
        ELSE RatMul(Rat(g, n * Cent), Rat(root, StdPrecision))

\* advice_of with the trend rules tried before the savings-rate rules.
advice_of_trend_first(savings_rate, trend) ==
    IF trend = "increasing" THEN "Your spending is trending upward."
    ELSE IF trend = "decreasing" THEN "Great job! Your spending is decreasing."
    ELSE IF RatLess(savings_rate, <<10, 1>>) THEN "Your savings rate is low."
    ELSE IF RatLess(savings_rate, <<20, 1>>) THEN "You're saving a decent amount."
    ELSE "Your finances look stable."

\* The advice of the trend-fit path: the first rule that matches.
advice_of(savings_rate, trend) ==
    IF RatLess(savings_rate, <<10, 1>>) THEN "Your savings rate is low."
    ELSE IF RatLess(savings_rate, <<20, 1>>) THEN "You're saving a decent amount."
    ELSE IF trend = "increasing" THEN "Your spending is trending upward."
    ELSE IF trend = "decreasing" THEN "Great job! Your spending is decreasing."
    ELSE "Your finances look stable."

\* average_forecast predicting the average income as the spending.
average_forecast_income_as_spending(monthly_spending, monthly_income, months, clock) ==
    LET avg_spending == mean_or_zero(monthly_spending)
        avg_income   == mean_or_zero(monthly_income)
    IN  [forecasts |->
            [k \in forecast_range(months) |->
                [month              |-> forecast_month(clock, k - 1),
                 predicted_spending |-> avg_income,
                 predicted_income   |-> avg_income,
                 predicted_savings  |-> RatSub(avg_income, avg_spending),
                 confidence_lower   |-> RatMul(avg_spending, <<8, 10>>),
                 confidence_upper   |-> RatMul(avg_spending, <<12, 10>>)]],
         average_monthly_spending |-> avg_spending,
         average_monthly_income   |-> avg_income,
         spending_trend           |-> "stable",
         savings_rate             |-> savings_rate_of(avg_income, avg_spending),
         advice |-> "Keep tracking your expenses to get more accurate forecasts."]

\* The forecast when fewer than 2 months hold an expense.
average_forecast(monthly_spending, monthly_income, months, clock) ==
    LET avg_spending == mean_or_zero(monthly_spending)
        avg_income   == mean_or_zero(monthly_income)
    IN  [forecasts |->
            [k \in forecast_range(months) |->
                [month              |-> forecast_month(clock, k - 1),
                 predicted_spending |-> avg_spending,
                 predicted_income   |-> avg_income,
                 predicted_savings  |-> RatSub(avg_income, avg_spending),
                 confidence_lower   |-> RatMul(avg_spending, <<8, 10>>),
                 confidence_upper   |-> RatMul(avg_spending, <<12, 10>>)]],
         average_monthly_spending |-> avg_spending,
         average_monthly_income   |-> avg_income,
         spending_trend           |-> "stable",
         savings_rate             |-> savings_rate_of(avg_income, avg_spending),
         advice |-> "Keep tracking your expenses to get more accurate forecasts."]

\* trend_forecast with predicted_savings floored at 0.
trend_forecast_floored(monthly_spending, monthly_income, months, clock) ==
    LET fit          == regression(monthly_spending)
        trend        == trend_of(fit)
        avg_income   == mean_or_zero(monthly_income)
        avg_spending == mean_or_zero(monthly_spending)
        std_dev      == std_of(monthly_spending)
        margin       == RatMul(<<196, 100>>, std_dev)
        savings_rate == savings_rate_of(avg_income, avg_spending)
    IN  [forecasts |->
            [k \in forecast_range(months) |->
                LET predicted_spending ==
                        RatMax0(predict(fit, Len(monthly_spending) + (k - 1)))
                IN  [month              |-> forecast_month(clock, k - 1),
                     predicted_spending |-> RatRound(predicted_spending),
                     predicted_income   |-> RatRound(avg_income),
                     predicted_savings  |->
                        RatRound(RatMax0(RatSub(avg_income, predicted_spending))),
                     confidence_lower   |->
                        RatRound(RatMax0(RatSub(predicted_spending, margin))),
                     confidence_upper   |->
                        RatRound(RatAdd(predicted_spending, margin))]],
         average_monthly_spending |-> RatRound(avg_spending),
         average_monthly_income   |-> RatRound(avg_income),
         spending_trend           |-> trend,
         \* round(savings_rate, 2)
         savings_rate |-> Rat(RatRound(RatMul(savings_rate, <<100, 1>>))[1], 100),
         advice       |-> advice_of(savings_rate, trend)]

\* The forecast from the line fitted to the monthly expense totals.
trend_forecast(monthly_spending, monthly_income, months, clock) ==
    LET fit          == regression(monthly_spending)
        trend        == trend_of(fit)
        avg_income   == mean_or_zero(monthly_income)
        avg_spending == mean_or_zero(monthly_spending)
        std_dev      == std_of(monthly_spending)
        margin       == RatMul(<<196, 100>>, std_dev)
        savings_rate == savings_rate_of(avg_income, avg_spending)
    IN  [forecasts |->
            [k \in forecast_range(months) |->
                LET predicted_spending ==
                        RatMax0(predict(fit, Len(monthly_spending) + (k - 1)))
                IN  [month              |-> forecast_month(clock, k - 1),
                     predicted_spending |-> RatRound(predicted_spending),
                     predicted_income   |-> RatRound(avg_income),
                     predicted_savings  |->
                        RatRound(RatSub(avg_income, predicted_spending)),
                     confidence_lower   |->
                        RatRound(RatMax0(RatSub(predicted_spending, margin))),
                     confidence_upper   |->
                        RatRound(RatAdd(predicted_spending, margin))]],
         average_monthly_spending |-> RatRound(avg_spending),
         average_monthly_income   |-> RatRound(avg_income),
         spending_trend           |-> trend,
         \* round(savings_rate, 2)
         savings_rate |-> Rat(RatRound(RatMul(savings_rate, <<100, 1>>))[1], 100),
         advice       |-> advice_of(savings_rate, trend)]

calculate_forecast(txs, months, clock) ==
    IF txs = <<>>
    THEN [forecasts                |-> <<>>,
          average_monthly_spending |-> <<0, 1>>,
          average_monthly_income   |-> <<0, 1>>,
          spending_trend           |-> "stable",
          savings_rate             |-> <<0, 1>>,
          advice |-> "Add some transactions to get personalized forecasts."]
    ELSE
    LET df               == transactions_to_dataframe(txs, clock)
        monthly_spending == monthly_totals(df, "EXPENSE")
        monthly_income   == monthly_totals(df, "INCOME")
    IN  IF Len(monthly_spending) < 2
        THEN average_forecast(monthly_spending, monthly_income, months, clock)
        ELSE trend_forecast(monthly_spending, monthly_income, months, clock)

(***************************************************************************)
(* FinancialAIAgent (ai-agent-service, app/core/agent.py).  A text is the  *)
(* sequence of the parts it is joined from, each [text, args] with args    *)
(* the values the part formats; a value returned where a text is expected  *)
(* is [type |-> "str", parts] or None, [type |-> "NoneType"].              *)
(***************************************************************************)
Str(parts) == [type |-> "str", parts |-> parts]

None == [type |-> "NoneType", parts |-> <<>>]

Part(text, args) == [text |-> text, args |-> args]

\* __init__: the client is built only with an API key, and only if importing
\* and constructing OpenAI does not raise.
FinancialAIAgent(api_key, openai_constructs) ==
    [api_key          |-> api_key,
     client           |-> api_key /\ openai_constructs,
     openai_available |-> api_key /\ openai_constructs]

\* What client.chat.completions.create(...) does on one call, followed by
\* response.choices[0].message.content: it raises (timeout, transport or API
\* error), answers without choices, with a message without content, or with
\* a text.
BackendReplies == {"raises", "no_choices", "no_content", "text"}

GeneratedText == Str(<<Part("<generated>", <<>>)>>)

\* monthly_savings / monthly_income * 100, as a rational of percent.
advice_savings_rate(financial_data) ==
    Rat(100 * financial_data.monthlySavings, financial_data.monthlyIncome)

\* The category-specific parts: one pass over spendingByCategory, a sequence
\* of <<category, amount>> in the order of the dict.
category_advice(spending_by_category) ==
    LET total_expenses ==
            SumSeq([k \in 1..Len(spending_by_category) |->
                        spending_by_category[k][2]])
        percentage(k) ==
            IF total_expenses > 0
            THEN Rat(100 * spending_by_category[k][2], total_expenses)
            ELSE <<0, 1>>
        part(k) ==
            LET category == spending_by_category[k][1]
            IN  IF category = "Food & Dining" /\ RatLess(<<25, 1>>, percentage(k))
                THEN <<Part("Food & Dining accounts for", <<percentage(k)>>)>>
                ELSE IF category = "Entertainment" /\ RatLess(<<15, 1>>, percentage(k))
                THEN <<Part("Entertainment spending is", <<percentage(k)>>)>>
                ELSE IF category = "Shopping" /\ RatLess(<<20, 1>>, percentage(k))
                THEN <<Part("Shopping represents", <<percentage(k)>>)>>
                ELSE <<>>
        RECURSIVE from(_)
        from(k) == IF k > Len(spending_by_category) THEN <<>>
                   ELSE part(k) \o from(k + 1)
    IN  from(1)

_get_rule_based_advice(financial_data) ==
    LET savings ==
            IF financial_data.monthlyIncome > 0
            THEN LET savings_rate == advice_savings_rate(financial_data)
                 IN  IF savings_rate[1] < 0
                     THEN <<Part("Alert: You're spending more than you earn", <<>>)>>
                     ELSE IF RatLess(savings_rate, <<10, 1>>)
                     THEN <<Part("Savings Rate: below 10%", <<>>)>>
                     ELSE IF RatLess(savings_rate, <<20, 1>>)
                     THEN <<Part("Good Progress: You're saving", <<savings_rate>>)>>
                     ELSE <<Part("Excellent: You're saving", <<savings_rate>>)>>
            ELSE <<>>
        emergency ==
            IF financial_data.monthlyExpenses > 0
            THEN <<Part("Emergency Fund Goal",
                        <<<<financial_data.monthlyExpenses * 6, 1>>>>)>>
            ELSE <<>>
        advice_parts ==
            savings \o category_advice(financial_data.spendingByCategory)
                \o emergency
    IN  IF advice_parts # <<>> THEN Str(advice_parts)
        ELSE Str(<<Part("Start tracking your income and expenses", <<>>)>>)

\* The try block: an exception of create() or of choices[0] is caught and
\* answered by the rules; a content of None is returned as it is.
_get_ai_advice(financial_data, reply) ==
    IF reply \in {"raises", "no_choices"}
    THEN _get_rule_based_advice(financial_data)
    ELSE IF reply = "no_content" THEN None
    ELSE GeneratedText

get_advice(self, financial_data, reply) ==
    IF self.openai_available THEN _get_ai_advice(financial_data, reply)
    ELSE _get_rule_based_advice(financial_data)

\* any(word in message_lower for word in words): a message is the set of the
\* keywords it contains.
any_word_in(message, words) == message \cap words # {}

_rule_based_chat(message, context) ==
    IF any_word_in(message, {"save", "saving", "savings"})
    THEN Str(<<Part("Great question about savings!", <<>>)>>)
    ELSE IF any_word_in(message, {"budget", "budgeting"})
    THEN Str(<<Part("Budgeting is key to financial success!", <<>>)>>)
    ELSE IF any_word_in(message, {"invest", "investing", "investment"})
    THEN Str(<<Part("Smart thinking about investing!", <<>>)>>)
    ELSE IF any_word_in(message, {"debt", "loan", "credit"})
    THEN Str(<<Part("Managing debt is important!", <<>>)>>)
    ELSE IF any_word_in(message, {"spend", "spending", "expense"})
    THEN Str(<<Part("Your current monthly expenses are",
                    <<context.monthlyExpenses>>)>>)
    ELSE Str(<<Part("I'm here to help with your finances!", <<>>)>>)

_ai_chat(message, context, reply) ==
    IF reply \in {"raises", "no_choices"}
    THEN _rule_based_chat(message, context)
    ELSE IF reply = "no_content" THEN None
    ELSE GeneratedText

chat(self, message, context, reply) ==
    IF self.openai_available THEN _ai_chat(message, context, reply)
    ELSE _rule_based_chat(message, context)

\* app/api/chat.py: the follow-up suggestions, by the topic of the message.
generate_suggestions(message) ==
    IF any_word_in(message, {"save", "saving"}) THEN "savings"
    ELSE IF any_word_in(message, {"budget", "spending"}) THEN "budget"
    ELSE IF any_word_in(message, {"invest", "stock"}) THEN "investing"
    ELSE IF any_word_in(message, {"debt", "loan", "credit"}) THEN "debt"
    ELSE "default"

(***************************************************************************)
(* analyze_patterns (ai-agent-service app/api/patterns.py).  A description *)
(* is one word; amounts are input units, Cent of them to 0.01.             *)
(***************************************************************************)
\* date.weekday(): 0 is Monday; 2024-01-01 is a Monday.
weekday(day) == day % 7

\* t.description.lower()
lower(description) ==
    IF description = "Netflix" THEN "netflix" ELSE description

SubscriptionKeywords ==
    {"netflix", "spotify", "hulu", "subscription", "monthly", "membership"}

\* tx_data of the transactions of the given type ("EXPENSE", or any other
\* for the incomes), in input order.
tx_data(txs, clock, expense) ==
    LET rows == SelectSeq(txs, LAMBDA t : (t.type = "EXPENSE") = expense)
    IN  [i \in 1..Len(rows) |->
            [amount      |-> rows[i].amount,
             category    |-> IF rows[i].category \in {NoCategory, ""}
                             THEN "Uncategorized" ELSE rows[i].category,
             description |-> lower(rows[i].description),
             day_of_week |-> weekday(parse_date(rows[i].date, clock).day)]]

\* The keys of category_spending, a dict: in the order of their first expense.
RECURSIVE spending_categories(_)
spending_categories(expense_transactions) ==
    IF expense_transactions = <<>> THEN <<>>
    ELSE LET n     == Len(expense_transactions)
             front == spending_categories(SubSeq(expense_transactions, 1, n - 1))
             c     == expense_transactions[n].category
         IN  IF \E k \in 1..Len(front) : front[k] = c
             THEN front ELSE Append(front, c)

SpendingPattern(pattern_type, description, impact, recommendation) ==
    [pattern_type   |-> pattern_type,
     description    |-> description,
     impact         |-> impact,
     recommendation |-> recommendation]

\* Pattern 1: weekend_spending > weekday_spending * 0.5 over 5 expenses or more.
weekend_pattern(expense_transactions) ==
    LET weekend == amount_sum(SelectSeq(expense_transactions,
                                        LAMBDA t : t.day_of_week >= 5))
        weekdays == amount_sum(SelectSeq(expense_transactions,
                                         LAMBDA t : t.day_of_week < 5))
    IN  IF 2 * weekend > weekdays /\ Len(expense_transactions) >= 5
        THEN <<SpendingPattern("weekend_spender",
                   Part("You tend to spend significantly more on weekends", <<>>),
                   "negative",
                   "Plan weekend activities in advance to avoid impulse spending")>>
        ELSE <<>>

\* Pattern 2: one pattern per category above 40% of a positive total.
category_patterns(expense_transactions) ==
    LET keys  == spending_categories(expense_transactions)
        total == amount_sum(expense_transactions)
        spent(c) == amount_sum(SelectSeq(expense_transactions,
                                         LAMBDA t : t.category = c))
        heavy == SelectSeq(keys, LAMBDA c :
                     total > 0 /\ 100 * spent(c) > 40 * total)
    IN  [k \in 1..Len(heavy) |->
            SpendingPattern("category_heavy",
                Part("accounts for % of your spending",
                     <<heavy[k], RoundHalfEven(100 * spent(heavy[k]), total)>>),
                "neutral",
                "Review if spending aligns with your priorities")]

\* The amount below which a purchase is small, in currency units.
SmallPurchase == 20

\* Pattern 3: more than 60% of the expenses are below 20.
small_pattern(expense_transactions) ==
    LET small_purchases ==
            SelectSeq(expense_transactions,
                      LAMBDA t : t.amount < SmallPurchase * 100 * Cent)
    IN  IF 5 * Len(small_purchases) > 3 * Len(expense_transactions)
        THEN <<SpendingPattern("small_purchases",
                   Part("Many small purchases adding up to $",
                        <<Round2(amount_sum(small_purchases), 1)>>),
                   "negative",
                   "Small purchases can add up quickly. Consider tracking these more carefully.")>>
        ELSE <<>>

\* Pattern 4: an expense above 3 times the average expense.
large_pattern(expense_transactions) ==
    LET n == Len(expense_transactions)
        large_expenses ==
            SelectSeq(expense_transactions,
                      LAMBDA t : n * t.amount > 3 * amount_sum(expense_transactions))
    IN  IF n > 0 /\ large_expenses # <<>>
        THEN <<SpendingPattern("irregular_large",
                   Part("Found unusually large expense(s)", <<Len(large_expenses)>>),
                   "neutral",
                   "Plan for large expenses by setting aside money in advance")>>
        ELSE <<>>

\* Pattern 5: 2 incomes or more whose range is below 10% of their mean; the
\* recommendation is None.
income_pattern(income_transactions) ==
    LET n == Len(income_transactions)
    IN  IF n >= 2
           /\ 10 * n * (amount_max(income_transactions)
                          - amount_min(income_transactions))
                < amount_sum(income_transactions)
        THEN <<SpendingPattern("stable_income",
                   Part("Your income is consistent and predictable", <<>>),
                   "positive", NoCategory)>>
        ELSE <<>>

\* Pattern 6: an expense whose description holds a subscription keyword.
subscription_pattern(expense_transactions) ==
    LET subscriptions == SelectSeq(expense_transactions,
                             LAMBDA t : t.description \in SubscriptionKeywords)
    IN  IF subscriptions # <<>>
        THEN <<SpendingPattern("subscriptions",
                   Part("Detected subscription payment(s) totaling $",
                        <<Len(subscriptions),
                          Round2(amount_sum(subscriptions), 1)>>),
                   "neutral",
                   "Review subscriptions regularly and cancel any you don't use")>>
        ELSE <<>>

\* risk_adjustment without its guard: on the totals alone.
risk_adjustment_unguarded(total_spending, income_transactions) ==
    LET total_income == amount_sum(income_transactions)
    IN  IF total_spending > total_income THEN 2
        ELSE IF 10 * total_spending < 7 * total_income THEN -2
        ELSE 0

\* What the comparison of spending and income adds to the risk score: only
\* with a positive spending and at least one income transaction.
risk_adjustment(total_spending, income_transactions) ==
    LET total_income == amount_sum(income_transactions)
    IN  IF total_spending > 0 /\ income_transactions # <<>>
        THEN IF total_spending > total_income THEN 2
             ELSE IF 10 * total_spending < 7 * total_income THEN -2
             ELSE 0
        ELSE 0

\* max(1, min(10, risk_score))
clamp_risk(risk_score) ==
    IF risk_score > 10 THEN 10 ELSE IF risk_score < 1 THEN 1 ELSE risk_score

personality_of(patterns, risk_score) ==
    IF patterns = <<>> THEN "Balanced Spender"
    ELSE IF risk_score <= 3 THEN "Savvy Saver"
    ELSE IF risk_score <= 5 THEN "Balanced Spender"
    ELSE IF risk_score <= 7 THEN "Casual Spender"
    ELSE "Spontaneous Spender"

analyze_patterns(txs, clock) ==
    IF txs = <<>>
    THEN [patterns              |-> <<>>,
          spending_personality  |-> "Unknown",
          risk_score            |-> 5,
          strengths             |-> <<>>,
          areas_for_improvement |->
              <<"Add transactions to analyze your spending patterns">>]
    ELSE
    LET expense_transactions == tx_data(txs, clock, TRUE)
        income_transactions  == tx_data(txs, clock, FALSE)
        weekend        == weekend_pattern(expense_transactions)
        small          == small_pattern(expense_transactions)
        income         == income_pattern(income_transactions)
        patterns       == weekend
                            \o category_patterns(expense_transactions)
                            \o small
                            \o large_pattern(expense_transactions)
                            \o income
                            \o subscription_pattern(expense_transactions)
        total_spending == amount_sum(expense_transactions)
        adjustment     == risk_adjustment(total_spending, income_transactions)
        negative_patterns ==
            Len(SelectSeq(patterns, LAMBDA q : q.impact = "negative"))
        positive_patterns ==
            Len(SelectSeq(patterns, LAMBDA q : q.impact = "positive"))
        risk_score     == clamp_risk(5 + adjustment + negative_patterns
                                       - positive_patterns)
        improvements   ==
            (IF weekend # <<>> THEN <<"Reduce weekend impulse spending">> ELSE <<>>)
            \o (IF small # <<>> THEN <<"Monitor small, frequent purchases">> ELSE <<>>)
            \o (IF adjustment = 2 THEN <<"Spending exceeds income">> ELSE <<>>)
        strengths      ==
            (IF income # <<>> THEN <<"Stable, predictable income">> ELSE <<>>)
            \o (IF adjustment = -2 THEN <<"Good savings rate">> ELSE <<>>)
    IN  [patterns              |-> patterns,
         spending_personality  |-> personality_of(patterns, risk_score),
         risk_score            |-> risk_score,
         strengths             |->
             IF strengths = <<>>
             THEN <<"You're tracking your finances - that's a great start!">>
             ELSE strengths,
         areas_for_improvement |->
             IF improvements = <<>> THEN <<"Keep up the good work!">>
             ELSE improvements]

(***************************************************************************)
(* The requests the model draws.                                           *)
(***************************************************************************)
\* x whole currency units, in input units.
Currency(x) == x * 100 * Cent

\* The sequences over S of length at most n.
SeqsUpTo(S, n) == UNION {[1..k -> S] : k \in 0..n}

\* The transaction list of fields s, ids numbered from 1 (unique in a request).
Request(s) ==
    [i \in 1..Len(s) |->
        [id          |-> i,
         description |-> "tx",
         amount      |-> s[i].amount,
         type        |-> s[i].type,
         category    |-> s[i].category,
         date        |-> s[i].date]]

\* 2024-01-15, 2024-02-15, 2024-03-15
Jan15 == IsoDate(14)

Feb15 == IsoDate(45)

Mar15 == IsoDate(74)

\* Small lists over both types, three category values, a zero amount and one
\* finer than 0.01, a parseable date and an unparseable one.
Fields ==
    [type     : {"INCOME", "EXPENSE"},
     category : {NoCategory, "Food", "Rent"},
     amount   : {0, 3},
     date     : {Jan15, BadDate}]

\* Expense lists long enough for the outlier detection.
OutlierFields ==
    [type     : {"EXPENSE"},
     category : {"Food"},
     amount   : {Currency(20), Currency(180), Currency(500)},
     date     : {Jan15}]

\* Expense lists over three months with totals around the slope threshold.
TrendFields ==
    [type     : {"EXPENSE"},
     category : {"Food"},
     amount   : {Currency(100), Currency(120), Currency(140), Currency(200)},
     date     : {Jan15, Feb15, Mar15}]

\* Expenses of 90 and 180 over two months beside incomes of 100 and 125 in
\* one: savings rates below 10, of exactly 10 and 20 and above, with every
\* trend.
AdviceFields ==
    [type     : {"EXPENSE"},
     category : {"Food"},
     amount   : {Currency(90), Currency(180)},
     date     : {Jan15, Feb15}]
    \cup
    [type     : {"INCOME"},
     category : {NoCategory},
     amount   : {Currency(100), Currency(125)},
     date     : {Jan15}]

\* Small expenses in one month, a large one of another category in the next
\* and an income: lists on which every insight rule can match.
InsightFields ==
    {[type |-> "EXPENSE", category |-> "Food", amount |-> Currency(20),
      date |-> Jan15],
     [type |-> "EXPENSE", category |-> "Rent", amount |-> Currency(500),
      date |-> Feb15],
     [type |-> "INCOME", category |-> NoCategory, amount |-> Currency(700),
      date |-> Jan15]}

\* Incomes of 100 and expenses of 80, 100 and 120 over three months: savings
\* rates of exactly 0 and 20, and month totals in the ratios 0.8 and 1.2.
SavingsFields ==
    [type     : {"EXPENSE"},
     category : {"Food"},
     amount   : {Currency(80), Currency(100), Currency(120)},
     date     : {Jan15, Feb15, Mar15}]
    \cup
    [type     : {"INCOME"},
     category : {NoCategory},
     amount   : {Currency(100)},
     date     : {Jan15, Feb15, Mar15}]

\* One or two months of expenses, for the forecast across the calendar.
CalendarFields ==
    [type     : {"EXPENSE"},
     category : {"Food"},
     amount   : {Currency(100)},
     date     : {Jan15, Feb15}]

\* Both types, a missing category, two amounts, dates without offset, with
\* one, and unparseable.
CategoryFields ==
    [type     : {"INCOME", "EXPENSE"},
     category : {NoCategory, "Food"},
     amount   : {Currency(20), Currency(50)},
     date     : {Jan15, IsoZDate(45), BadDate}]

\* Lists of one category over three dates, longer than RecentCount.
RecentFields ==
    [type     : {"EXPENSE"},
     category : {"Food"},
     amount   : {Currency(20)},
     date     : {Jan15, Feb15, Mar15}]

\* The category labels a request asks the detail of.
CategoryLabels == {"Food", "Rent", "Uncategorized"}

\* The wall clock: 2024-03-31.
Clock == {90}

\* The wall clock on every day from 2024-01-01 on.
CalendarClock == 0..MaxClockDay

\* What a caller sends to the agent: the financial data of /advice, and the
\* message (the keywords it contains) and context of /chat.
Inquiry(financial_data, message, context) ==
    [financial_data |-> financial_data, message |-> message, context |-> context]

FinancialData ==
    [totalBalance       : {0},
     monthlyIncome      : {0, 1000},
     monthlyExpenses    : {0, 800},
     monthlySavings     : {-100, 50, 150, 200},
     spendingByCategory :
        {<<>>,
         <<<<"Shopping", 0>>>>,
         <<<<"Food & Dining", 300>>, <<"Entertainment", 100>>,
           <<"Shopping", 100>>>>}]

Messages ==
    {{}, {"save"}, {"savings", "saving"}, {"budget"}, {"spending", "spend"},
     {"expense"}, {"stock"}, {"invest", "debt"}}

Contexts == [monthlyExpenses : {0, 800}]

\* An agent without API key, asked by a caller who has nothing to report.
NoKeyAgent == FinancialAIAgent(FALSE, FALSE)

QuietInquiry ==
    Inquiry([totalBalance |-> 0, monthlyIncome |-> 0, monthlyExpenses |-> 0,
             monthlySavings |-> 0, spendingByCategory |-> <<>>],
            {}, [monthlyExpenses |-> 0])

NoResponse == [kind |-> "none"]

TypeInit(fields, n, clock) ==
    /\ transactions \in {Request(s) : s \in SeqsUpTo(fields, n)}
    /\ now \in clock
    /\ agent = NoKeyAgent
    /\ inquiry = QuietInquiry
    /\ response = NoResponse

Init == TypeInit(Fields, MaxTx, Clock)

InitOutlier == TypeInit(OutlierFields, MaxOutlierTx, Clock)

InitTrend == TypeInit(TrendFields, MaxTrendTx, Clock)

InitCategory ==
    /\ transactions \in
        {Request(s) : s \in SeqsUpTo(CategoryFields, MaxCategoryTx)}
            \cup {Request(s) : s \in SeqsUpTo(RecentFields, MaxRecentTx)}
    /\ now \in Clock
    /\ agent = NoKeyAgent
    /\ inquiry = QuietInquiry
    /\ response = NoResponse

\* Every agent __init__ can build, asked every inquiry, beside an empty
\* transaction list.
InitAgent ==
    /\ transactions = <<>>
    /\ now \in Clock
    /\ agent \in {FinancialAIAgent(k, c) : k \in BOOLEAN, c \in BOOLEAN}
    /\ inquiry \in {Inquiry(f, m, c) :
                        f \in FinancialData, m \in Messages, c \in Contexts}
    /\ response = NoResponse

InitAdvice == TypeInit(AdviceFields, MaxAdviceTx, Clock)

InitInsight == TypeInit(InsightFields, MaxInsightTx, Clock)

InitSavings == TypeInit(SavingsFields, MaxSavingsTx, Clock)

\* Expenses of two categories whose amounts can cancel, with and without
\* an offset in the timestamp (amount is a float without constraint).
ZeroSumFields ==
    [type : {"EXPENSE"}, category : {"Food", "Rent"},
     amount : {-Currency(5), 0, Currency(5)}, date : {Jan15, IsoZDate(45)}]

InitZeroSum == TypeInit(ZeroSumFields, MaxZeroSumTx, Clock)

InitCalendar == TypeInit(CalendarFields, MaxCalendarTx, CalendarClock)

\* The transaction list of fields s with their descriptions.
PatternRequest(s) ==
    [i \in 1..Len(s) |->
        [id          |-> i,
         description |-> s[i].description,
         amount      |-> s[i].amount,
         type        |-> s[i].type,
         category    |-> s[i].category,
         date        |-> s[i].date]]

\* 2024-01-13, a Saturday.
Jan13 == IsoDate(12)

\* Expenses of 10, 70 and 100 on a Monday or a Saturday, one of them a
\* subscription, beside incomes of 100 and 200.
PatternFields ==
    [type        : {"EXPENSE"},
     category    : {"Food"},
     description : {"tx", "Netflix"},
     amount      : {Currency(10), Currency(70), Currency(100)},
     date        : {Jan15, Jan13}]
    \cup
    [type        : {"INCOME"},
     category    : {NoCategory},
     description : {"tx"},
     amount      : {Currency(100), Currency(200)},
     date        : {Jan15}]

\* Expenses of 100 on a Monday or a Saturday: 5 of them for the weekend rule.
WeekendFields ==
    [type        : {"EXPENSE"},
     category    : {"Food"},
     description : {"tx"},
     amount      : {Currency(100)},
     date        : {Jan15, Jan13}]

\* Expenses of 100 in three categories beside an income of 100: lists
\* without any pattern whose spending exceeds the income.
SpreadFields ==
    [type        : {"EXPENSE"},
     category    : {"Food", "Rent", NoCategory},
     description : {"tx"},
     amount      : {Currency(100)},
     date        : {Jan15}]
    \cup
    [type        : {"INCOME"},
     category    : {NoCategory},
     description : {"tx"},
     amount      : {Currency(100)},
     date        : {Jan15}]

InitPatterns ==
    /\ transactions \in
        {PatternRequest(s) : s \in SeqsUpTo(PatternFields, MaxPatternTx)}
            \cup {PatternRequest(s) : s \in SeqsUpTo(WeekendFields, MaxWeekendTx)}
            \cup {PatternRequest(s) : s \in SeqsUpTo(SpreadFields, MaxSpreadTx)}
    /\ now \in Clock
    /\ agent = NoKeyAgent
    /\ inquiry = QuietInquiry
    /\ response = NoResponse

(***************************************************************************)
(* The handlers.                                                           *)
(***************************************************************************)
\* POST /analyze
analyze_spending ==
    /\ response = NoResponse
    /\ response' =
        IF datetimelike(transactions, now)
        THEN [kind   |-> "analysis",
              result |-> analyze_transactions(transactions, now)]
        ELSE [kind |-> "error", op |-> "analyze_spending", status |-> 500]
    /\ UNCHANGED <<transactions, now, agent, inquiry>>

\* POST /forecast
get_forecast ==
    /\ response = NoResponse
    /\ \E months \in 0..MaxForecastMonths :
        response' =
            IF datetimelike(transactions, now)
            THEN [kind            |-> "forecast",
                  forecast_months |-> months,
                  result |-> calculate_forecast(transactions, months, now)]
            ELSE [kind |-> "error", op |-> "get_forecast", status |-> 500]
    /\ UNCHANGED <<transactions, now, agent, inquiry>>

\* POST /analyze/category/{category}
analyze_category ==
    /\ response = NoResponse
    /\ \E category \in CategoryLabels :
        response' = category_detail(category, transactions, now)
            @@ [category |-> category]
    /\ UNCHANGED <<transactions, now, agent, inquiry>>

\* POST /advice.  AdviceResponse validates advice to be a str: any other
\* value raises, and the request fails.  The field reply records what the
\* backend did on this call ("unasked" when it was not called).
get_financial_advice ==
    /\ response = NoResponse
    /\ \E reply \in BackendReplies :
        LET advice == get_advice(agent, inquiry.financial_data, reply)
        IN  response' =
                IF advice.type = "str"
                THEN [kind         |-> "advice",
                      reply        |-> IF agent.openai_available THEN reply ELSE "unasked",
                      advice       |-> advice,
                      ai_generated |-> agent.openai_available]
                ELSE [kind   |-> "error", op |-> "get_financial_advice",
                      reply  |-> reply, status |-> 500]
    /\ UNCHANGED <<transactions, now, agent, inquiry>>

\* POST /chat.  ChatResponse validates response to be a str.
chat_with_agent ==
    /\ response = NoResponse
    /\ \E reply \in BackendReplies :
        LET answer == chat(agent, inquiry.message, inquiry.context, reply)
        IN  response' =
                IF answer.type = "str"
                THEN [kind        |-> "chat",
                      reply       |-> IF agent.openai_available THEN reply ELSE "unasked",
                      response    |-> answer,
                      suggestions |-> generate_suggestions(inquiry.message)]
                ELSE [kind   |-> "error", op |-> "chat_with_agent",
                      reply  |-> reply, status |-> 500]
    /\ UNCHANGED <<transactions, now, agent, inquiry>>

\* POST /patterns
analyze_spending_patterns ==
    /\ response = NoResponse
    /\ response' = [kind   |-> "patterns",
                    result |-> analyze_patterns(transactions, now)]
    /\ UNCHANGED <<transactions, now, agent, inquiry>>

Next ==
    \/ analyze_spending
    \/ get_forecast
    \/ analyze_category
    \/ get_financial_advice
    \/ chat_with_agent
    \/ analyze_spending_patterns

Spec == Init /\ [][Next]_vars

SpecOutlier == InitOutlier /\ [][Next]_vars

SpecTrend == InitTrend /\ [][Next]_vars

SpecCategory == InitCategory /\ [][Next]_vars

SpecAgent == InitAgent /\ [][Next]_vars

SpecAdvice == InitAdvice /\ [][Next]_vars

SpecInsight == InitInsight /\ [][Next]_vars

SpecSavings == InitSavings /\ [][Next]_vars

SpecCalendar == InitCalendar /\ [][Next]_vars

SpecZeroSum == InitZeroSum /\ [][Next]_vars

SpecPatterns == InitPatterns /\ [][Next]_vars

(***************************************************************************)
(* What the claims speak of.                                               *)
(***************************************************************************)
Analyzed == response.kind = "analysis"

Forecasted == response.kind = "forecast"

\* The request's frame and its expense rows.
Frame == transactions_to_dataframe(transactions, now)

Expenses == rows_of_type(Frame, "EXPENSE")

\* The months that hold an expense.
ExpenseMonths == {Expenses[i].month : i \in 1..Len(Expenses)}

\* The monthly expense totals the forecast sees, in ascending month order.
MonthlySpending == monthly_totals(Frame, "EXPENSE")

Breakdown == response.result.category_breakdown

PercentageSum ==
    SumSeq([k \in 1..Len(Breakdown) |-> Breakdown[k].percentage_of_total])

\* A sum of n percentages, each rounded to 0.01, is 100 up to n * 0.005.
SumsTo100 == 2 * Abs(PercentageSum - 10000) <= Len(Breakdown)

(***************************************************************************)
(* C1.  As stated: whenever analyze_transactions returns a non-empty       *)
(* category_breakdown, its percentage_of_total sum to 100 up to rounding.  *)
(* The code refutes it: expenses that sum to zero give a non-empty         *)
(* breakdown whose percentages are all 0.                                  *)
(***************************************************************************)
\* C1 as stated: the percentages of a non-empty breakdown sum to 100.
C1_Original == (Analyzed /\ Breakdown # <<>>) => SumsTo100

\* C1, amended: whenever analyze_transactions returns a non-empty
\* category_breakdown and the EXPENSE amounts sum to more than zero, the
\* percentage_of_total sum to 100 up to rounding.
C1_PercentagesSumTo100 ==
    (Analyzed /\ Breakdown # <<>> /\ amount_sum(Expenses) > 0) => SumsTo100

\* Three categories of one third each: 33.33 + 33.33 + 33.33 = 99.99.
C1_Witness ==
    /\ Analyzed
    /\ Len(Breakdown) = 3
    /\ amount_sum(Expenses) > 0
    /\ PercentageSum = 9999

(***************************************************************************)
(* C2.  As stated: in every entry of monthly_breakdown, net_savings equals *)
(* total_income minus total_spending exactly.  The code refutes it: the    *)
(* three values are rounded separately, and round(a - b) is not            *)
(* round(a) - round(b) when a month's totals are finer than 0.01.          *)
(***************************************************************************)
Monthly == response.result.monthly_breakdown

\* C2 as stated: net_savings = total_income - total_spending, exactly.
C2_Original ==
    Analyzed =>
        \A k \in 1..Len(Monthly) :
            Monthly[k].net_savings =
                Monthly[k].total_income - Monthly[k].total_spending

\* The rows of the request that fall in the month labelled label.
RowsOfMonth(label) == SelectSeq(Frame, LAMBDA r : MonthLabel(r.month) = label)

\* C2, amended: in every entry of monthly_breakdown, net_savings is the
\* month's income minus the month's spending rounded to 2 decimals, and so
\* differs from total_income minus total_spending by at most 0.01.
C2_NetSavingsWithinOneCent ==
    Analyzed =>
        \A k \in 1..Len(Monthly) :
            LET rows == RowsOfMonth(Monthly[k].month)
                net  == amount_sum(rows_of_type(rows, "INCOME"))
                            - amount_sum(rows_of_type(rows, "EXPENSE"))
            IN  /\ 2 * Abs(Cent * Monthly[k].net_savings - net) <= Cent
                /\ Abs(Monthly[k].net_savings
                        - (Monthly[k].total_income - Monthly[k].total_spending)) <= 1

\* A month with income and spending whose reported net is off by 0.01.
C2_Witness ==
    /\ Analyzed
    /\ \E k \in 1..Len(Monthly) :
        /\ Monthly[k].total_income > 0
        /\ Monthly[k].total_spending > 0
        /\ Monthly[k].net_savings #
                Monthly[k].total_income - Monthly[k].total_spending

(***************************************************************************)
(* C3.  With at most 5 EXPENSE transactions analyze_transactions returns   *)
(* an empty unusual_transactions and no outlier-count insight, whatever    *)
(* the amounts.                                                            *)
(***************************************************************************)
Unusual == response.result.unusual_transactions

Insights == response.result.insights

OutlierInsight == "unusually large transaction(s)"

HasInsight(text) == \E k \in 1..Len(Insights) : Insights[k].text = text

\* C3: at most 5 expenses give no unusual transaction and no outlier insight.
C3_NoOutliersUpTo5Expenses ==
    (Analyzed /\ Len(Expenses) <= 5) =>
        (Unusual = <<>> /\ ~HasInsight(OutlierInsight))

\* The expenses whose amount is x whole currency units.
ExpensesOf(x) == SelectSeq(Expenses, LAMBDA r : r.amount = Currency(x))

\* Five expenses, one of 500 among four of 20.
C3_Witness ==
    /\ Analyzed
    /\ Len(Expenses) = 5
    /\ Len(ExpensesOf(500)) = 1
    /\ Len(ExpensesOf(20)) = 4
    /\ Unusual = <<>>

(***************************************************************************)
(* C10.  With more than 5 EXPENSE transactions, unusual_transactions holds *)
(* exactly the expenses whose amount is strictly above mean + 2 * (sample  *)
(* standard deviation) of the expense amounts, in input order; of 8        *)
(* expenses, one of 500 and seven of 20, exactly the one of 500.           *)
(***************************************************************************)
\* The expense amounts in whole currency units.
Whole(i) == Expenses[i].amount \div Currency(1)

\* amount(i) > mean + 2 * std, squared out: with n amounts a of sum s,
\* n a(i) > s and (n - 1) (n a(i) - s)^2 > 4 n (n Sum a^2 - s^2).
AboveMeanPlus2Std(i) ==
    LET n  == Len(Expenses)
        s  == SumSeq([j \in 1..n |-> Whole(j)])
        ss == SumSeq([j \in 1..n |-> Whole(j) * Whole(j)])
        d  == n * Whole(i) - s
    IN  d > 0 /\ (n - 1) * d * d > 4 * n * (n * ss - s * s)

\* The ids of the expenses above the threshold, in input order.
ExpectedOutlierIds ==
    LET idx == SelectSeq([i \in 1..Len(Expenses) |-> i], AboveMeanPlus2Std)
    IN  [k \in 1..Len(idx) |-> Expenses[idx[k]].id]

\* C10: with more than 5 expenses, the unusual transactions are exactly the
\* expenses strictly above mean + 2 * std, in input order; one 500 among seven
\* 20 is the only one flagged.
C10_OutliersAreThoseAboveThreshold ==
    (Analyzed /\ Len(Expenses) > 5) =>
        /\ [k \in 1..Len(Unusual) |-> Unusual[k].id] = ExpectedOutlierIds
        /\ (Len(Expenses) = 8 /\ Len(ExpensesOf(500)) = 1 /\ Len(ExpensesOf(20)) = 7)
            => (Len(Unusual) = 1 /\ Unusual[1].amount = 50000)

\* The scenario: 8 expenses, one of 500 and seven of 20, the 500 one flagged.
C10_Witness ==
    /\ Analyzed
    /\ Len(Expenses) = 8
    /\ Len(ExpensesOf(500)) = 1
    /\ Len(ExpensesOf(20)) = 7
    /\ Len(Unusual) = 1
    /\ Unusual[1].amount = 50000

(***************************************************************************)
(* C4.  Every forecast point, on the insufficient-history path and on the  *)
(* trend-fit path, has predicted_spending >= 0 and confidence_lower >= 0   *)
(* (amounts being non-negative), even when the fitted line projects a      *)
(* negative value.                                                         *)
(***************************************************************************)
Forecasts == response.result.forecasts

\* C4: no forecast point has a negative predicted_spending or confidence_lower.
C4_ForecastNeverNegative ==
    Forecasted =>
        \A k \in 1..Len(Forecasts) :
            /\ Forecasts[k].predicted_spending[1] >= 0
            /\ Forecasts[k].confidence_lower[1] >= 0

\* The trend-fit path with a line that projects below zero, reported as 0.
C4_Witness ==
    /\ Forecasted
    /\ Len(MonthlySpending) >= 2
    /\ \E k \in 1..Len(Forecasts) :
        /\ predict(regression(MonthlySpending),
                   Len(MonthlySpending) + (k - 1))[1] < 0
        /\ Forecasts[k].predicted_spending = <<0, 1>>
        /\ Forecasts[k].confidence_lower = <<0, 1>>

(***************************************************************************)
(* C5.  With fewer than 2 distinct months holding an EXPENSE transaction,  *)
(* calculate_forecast returns spending_trend "stable" and every forecast   *)
(* point predicts the historical average monthly expense: the single       *)
(* month's expense total, or 0 without expense history.                    *)
(***************************************************************************)
\* C5: fewer than 2 expense months give trend "stable" and the historical
\* average (the single month's total, or 0) as every predicted_spending.
C5_InsufficientHistoryIsAverage ==
    (Forecasted /\ Cardinality(ExpenseMonths) < 2) =>
        /\ response.result.spending_trend = "stable"
        /\ \A k \in 1..Len(Forecasts) :
            Forecasts[k].predicted_spending = Rat(amount_sum(Expenses), Cent)

\* One month of expenses, with income beside it, and a point forecast.
C5_Witness ==
    /\ Forecasted
    /\ Cardinality(ExpenseMonths) = 1
    /\ amount_sum(Expenses) > 0
    /\ amount_sum(rows_of_type(Frame, "INCOME")) > amount_sum(Expenses)
    /\ Len(Forecasts) >= 1
    /\ Forecasts[1].predicted_spending = Rat(amount_sum(Expenses), Cent)

(***************************************************************************)
(* C6.  As stated: for every transaction list, the empty one included,     *)
(* and every horizon N >= 0, calculate_forecast returns exactly N forecast *)
(* points, each predicting expense 0 and income 0 when there is no history *)
(* at all.  The code refutes it: for the empty list it returns no forecast *)
(* point, whatever N is.                                                   *)
(***************************************************************************)
NoExpenseNoIncomeIsZero ==
    \A k \in 1..Len(Forecasts) :
        /\ Expenses = <<>> => Forecasts[k].predicted_spending = <<0, 1>>
        /\ rows_of_type(Frame, "INCOME") = <<>>
            => Forecasts[k].predicted_income = <<0, 1>>

\* C6 as stated: exactly N forecast points for every list, the empty one too.
C6_Original ==
    Forecasted =>
        /\ Len(Forecasts) = response.forecast_months
        /\ NoExpenseNoIncomeIsZero

\* C6, amended: for every non-empty transaction list and every horizon
\* N >= 0, calculate_forecast returns exactly N forecast points, each
\* predicting expense 0 when the list holds no EXPENSE and income 0 when it
\* holds no INCOME; for the empty list it returns no forecast point.
C6_HorizonPointsUnlessEmpty ==
    Forecasted =>
        /\ transactions # <<>> =>
            /\ Len(Forecasts) = response.forecast_months
            /\ NoExpenseNoIncomeIsZero
        /\ transactions = <<>> => Forecasts = <<>>

\* Income only, two points asked for: two points of expense 0.
C6_Witness ==
    /\ Forecasted
    /\ transactions # <<>>
    /\ Expenses = <<>>
    /\ response.forecast_months = 2
    /\ Len(Forecasts) = 2
    /\ Forecasts[2].predicted_spending = <<0, 1>>
    /\ Forecasts[2].predicted_income[1] > 0

(***************************************************************************)
(* C8.  For the empty transaction list analyze_transactions returns, with  *)
(* no error, zero totals, empty breakdowns and lists, and the single       *)
(* insight "Add transactions to get spending insights.".                   *)
(***************************************************************************)
\* POST /analyze has answered, with a result or an error.
AnalyzeResponded ==
    \/ response.kind = "analysis"
    \/ response.kind = "error" /\ response.op = "analyze_spending"

\* C8: the analysis of the empty list is the zero result with the single
\* insight, and no error.
C8_EmptyListAnalysis ==
    (transactions = <<>> /\ AnalyzeResponded) =>
        /\ response.kind = "analysis"
        /\ response.result.total_transactions = 0
        /\ response.result.total_income = 0
        /\ response.result.total_expenses = 0
        /\ response.result.net_balance = 0
        /\ response.result.category_breakdown = <<>>
        /\ response.result.monthly_breakdown = <<>>
        /\ response.result.top_spending_categories = <<>>
        /\ response.result.unusual_transactions = <<>>
        /\ Len(response.result.insights) = 1
        /\ response.result.insights[1].text
            = "Add transactions to get spending insights."

C8_Witness ==
    /\ transactions = <<>>
    /\ Analyzed
    /\ Len(Insights) = 1

(***************************************************************************)
(* C9.  As stated: with monthly EXPENSE totals of 100, 120 and 140 over    *)
(* three consecutive months, calculate_forecast reports spending_trend     *)
(* "increasing" and a first predicted_spending above 140.  The code        *)
(* refutes the trend: the fitted slope is 20 a month, not above the        *)
(* threshold of 50, so the trend is "stable".                              *)
(***************************************************************************)
Series100_120_140 ==
    /\ MonthlySpending = <<Currency(100), Currency(120), Currency(140)>>
    /\ \E m \in ExpenseMonths : ExpenseMonths = {m, m + 1, m + 2}

\* C9 as stated: totals 100, 120, 140 give "increasing" and a first
\* prediction above 140.
C9_Original ==
    (Forecasted /\ Series100_120_140) =>
        /\ response.result.spending_trend = "increasing"
        /\ \A k \in 1..Len(Forecasts) :
            k = 1 => RatLess(<<14000, 1>>, Forecasts[k].predicted_spending)

\* C9, amended: with monthly EXPENSE totals of 100, 120 and 140 over three
\* consecutive months, calculate_forecast reports spending_trend "stable"
\* (the slope is 20) and the first predicted_spending is 160, above 140.
C9_StableAndAbove140 ==
    (Forecasted /\ Series100_120_140) =>
        /\ response.result.spending_trend = "stable"
        /\ \A k \in 1..Len(Forecasts) :
            k = 1 => /\ Forecasts[k].predicted_spending = <<16000, 1>>
                     /\ RatLess(<<14000, 1>>, Forecasts[k].predicted_spending)

C9_Witness ==
    /\ Forecasted
    /\ Series100_120_140
    /\ Len(Forecasts) >= 1
    /\ response.result.spending_trend = "stable"
    /\ Forecasts[1].predicted_spending = <<16000, 1>>

(***************************************************************************)
(* C11.  For every "now" and every horizon, the month labels of the        *)
(* forecast points are the calendar months that follow the month of "now", *)
(* one after the other.  The code steps 30 days per point instead of one   *)
(* calendar month: from 2024-01-01 the first label is 2024-01 again and    *)
(* the second 2024-03, from 2024-01-31 the first label is 2024-03.         *)
(***************************************************************************)
\* C11: the k-th forecast point is labelled with the k-th calendar month after
\* the month of "now": strictly increasing, contiguous, none repeated or
\* skipped.
C11_MonthsContiguousAfterNow ==
    Forecasted =>
        \A k \in 1..Len(Forecasts) :
            Forecasts[k].month = MonthLabel(MonthOf(now) + k)

(***************************************************************************)
(* C12.  As stated: category_breakdown has one entry per distinct category *)
(* among the EXPENSE transactions, in descending order of total_spent,     *)
(* categories of equal totals in the order in which their first expense    *)
(* appears in the input.  The code orders equal totals otherwise: groupby  *)
(* sorts its keys, and the stable sort keeps that order among equals.      *)
(***************************************************************************)
\* The categories of the expense rows.
ExpenseCategories == {Expenses[i].category : i \in 1..Len(Expenses)}

\* The position of the first expense of category c in the input.
FirstSeen(c) ==
    CHOOSE i \in 1..Len(transactions) :
        /\ Frame[i].type = "EXPENSE" /\ Frame[i].category = c
        /\ \A j \in 1..(i - 1) : ~(Frame[j].type = "EXPENSE" /\ Frame[j].category = c)

\* One entry per expense category, holding that category's expenses only.
OneEntryPerExpenseCategory ==
    /\ Len(Breakdown) = Cardinality(ExpenseCategories)
    /\ {Breakdown[k].category : k \in 1..Len(Breakdown)} = ExpenseCategories
    /\ \A k \in 1..Len(Breakdown) :
        LET grp == SelectSeq(Expenses, LAMBDA r : r.category = Breakdown[k].category)
        IN  /\ Breakdown[k].transaction_count = Len(grp)
            /\ Breakdown[k].total_spent = Round2(amount_sum(grp), 1)

\* C12 as stated: one entry per expense category, descending by total_spent,
\* equal totals in first-seen order.
C12_Original ==
    Analyzed =>
        /\ OneEntryPerExpenseCategory
        /\ \A k, l \in 1..Len(Breakdown) :
            k < l =>
                \/ Breakdown[k].total_spent > Breakdown[l].total_spent
                \/ /\ Breakdown[k].total_spent = Breakdown[l].total_spent
                   /\ FirstSeen(Breakdown[k].category) < FirstSeen(Breakdown[l].category)

\* C12, amended: one entry per expense category (INCOME contributing
\* nothing), descending by the reported total_spent, categories of equal
\* reported totals in ascending order of their labels.
C12_SortedTiesByLabel ==
    Analyzed =>
        /\ OneEntryPerExpenseCategory
        /\ \A k, l \in 1..Len(Breakdown) :
            k < l =>
                \/ Breakdown[k].total_spent > Breakdown[l].total_spent
                \/ /\ Breakdown[k].total_spent = Breakdown[l].total_spent
                   /\ CategoryRank(Breakdown[k].category)
                        < CategoryRank(Breakdown[l].category)

\* Rent spent first and Food after it, of equal totals, beside an income:
\* Food is listed first.
C12_Witness ==
    /\ Analyzed
    /\ rows_of_type(Frame, "INCOME") # <<>>
    /\ Len(Breakdown) = 2
    /\ Breakdown[1].category = "Food"
    /\ Breakdown[2].category = "Rent"
    /\ Breakdown[1].total_spent = Breakdown[2].total_spent
    /\ Breakdown[1].total_spent > 0
    /\ FirstSeen("Rent") < FirstSeen("Food")

(***************************************************************************)
(* C13.  As stated: top_category of a month is the expense category of the *)
(* highest expense total in that month, a tie going to the category met    *)
(* first among the month's transactions, and it is "N/A" exactly when the  *)
(* month has no EXPENSE.  The code breaks a tie otherwise: idxmax takes    *)
(* the first of groupby's sorted keys.                                     *)
(***************************************************************************)
\* The expenses of the month labelled label.
ExpensesOfMonth(label) == rows_of_type(RowsOfMonth(label), "EXPENSE")

\* What the expenses of category c sum to in the month labelled label.
SpentIn(label, c) ==
    amount_sum(SelectSeq(ExpensesOfMonth(label), LAMBDA r : r.category = c))

\* The categories that hold the highest expense total of the month.
Leaders(label) ==
    LET cats == {ExpensesOfMonth(label)[i].category :
                    i \in 1..Len(ExpensesOfMonth(label))}
    IN  {c \in cats : \A o \in cats : SpentIn(label, o) <= SpentIn(label, c)}

\* The position of the first expense of category c in the month.
FirstInMonth(label, c) ==
    CHOOSE i \in 1..Len(ExpensesOfMonth(label)) :
        /\ ExpensesOfMonth(label)[i].category = c
        /\ \A j \in 1..(i - 1) : ExpensesOfMonth(label)[j].category # c

\* C13 as stated: the leader met first among the month's transactions, and
\* "N/A" exactly for a month without expenses.
C13_Original ==
    Analyzed =>
        \A k \in 1..Len(Monthly) :
            LET label == Monthly[k].month
                top   == Monthly[k].top_category
            IN  /\ (top = "N/A") <=> (ExpensesOfMonth(label) = <<>>)
                /\ ExpensesOfMonth(label) # <<>> =>
                    /\ top \in Leaders(label)
                    /\ \A c \in Leaders(label) :
                        FirstInMonth(label, top) <= FirstInMonth(label, c)

\* C13, amended: top_category is the expense category of the highest expense
\* total in the month, a tie going to the label that sorts first, and it is
\* "N/A" exactly when the month has no EXPENSE.
C13_TopCategoryTiesByLabel ==
    Analyzed =>
        \A k \in 1..Len(Monthly) :
            LET label == Monthly[k].month
                top   == Monthly[k].top_category
            IN  /\ (top = "N/A") <=> (ExpensesOfMonth(label) = <<>>)
                /\ ExpensesOfMonth(label) # <<>> =>
                    /\ top \in Leaders(label)
                    /\ \A c \in Leaders(label) :
                        CategoryRank(top) <= CategoryRank(c)

\* A month where Rent is spent first and Food, of the same total, after it
\* reports Food; another month, of income only, reports "N/A".
C13_Witness ==
    /\ Analyzed
    /\ \E k \in 1..Len(Monthly) :
        /\ Leaders(Monthly[k].month) = {"Food", "Rent"}
        /\ SpentIn(Monthly[k].month, "Food") > 0
        /\ FirstInMonth(Monthly[k].month, "Rent")
            < FirstInMonth(Monthly[k].month, "Food")
        /\ Monthly[k].top_category = "Food"
    /\ \E k \in 1..Len(Monthly) :
        /\ ExpensesOfMonth(Monthly[k].month) = <<>>
        /\ Monthly[k].top_category = "N/A"

(***************************************************************************)
(* C14.  The category detail signals not-found (404) if and only if no     *)
(* transaction matches the requested label, and otherwise returns the      *)
(* total, average, least and greatest amount of exactly the matching       *)
(* transactions with at most 5 of them, the most recent by date.  The code *)
(* has a third outcome: matching transactions whose timestamps are partly  *)
(* with and partly without an offset (an unparseable one counts as         *)
(* without) make nlargest raise, and the request fails.                    *)
(***************************************************************************)
\* POST /analyze/category/{category} has answered.
CategoryResponded ==
    \/ response.kind = "category"
    \/ response.kind = "error" /\ response.op = "analyze_category"

\* The transactions that carry the requested label.
Matching == SelectSeq(transactions, LAMBDA t : t.category = response.category)

MatchingDay(i) == parse_date(Matching[i].date, now).day

Detail == response.result

\* The totals are those of exactly the matching transactions.
DetailOverMatching ==
    /\ Detail.transaction_count = Len(Matching)
    /\ Detail.total_spent
        = Round2(SumSeq([i \in 1..Len(Matching) |-> Matching[i].amount]), 1)
    /\ Detail.average_transaction
        = Round2(SumSeq([i \in 1..Len(Matching) |-> Matching[i].amount]),
                 Len(Matching))
    /\ \E i \in 1..Len(Matching) :
        Detail.min_transaction = Round2(Matching[i].amount, 1)
    /\ \E i \in 1..Len(Matching) :
        Detail.max_transaction = Round2(Matching[i].amount, 1)
    /\ \A i \in 1..Len(Matching) :
        /\ Detail.min_transaction <= Round2(Matching[i].amount, 1)
        /\ Detail.max_transaction >= Round2(Matching[i].amount, 1)

\* recent_transactions are the min(5, n) latest matching ones, latest first:
\* the k-th of them carries the k-th latest date.
RecentAreLatest ==
    LET recent == Detail.recent_transactions
    IN  /\ Len(recent) = (IF Len(Matching) < 5 THEN Len(Matching) ELSE 5)
        /\ \A k \in 1..Len(recent) :
            /\ Cardinality({i \in 1..Len(Matching) :
                                MatchingDay(i) > recent[k].date}) < k
            /\ Cardinality({i \in 1..Len(Matching) :
                                MatchingDay(i) >= recent[k].date}) >= k

\* C14: 404 if and only if nothing matches the label; otherwise a result over
\* exactly the matching transactions, with the at most 5 most recent ones.
C14_NotFoundIffNoMatch ==
    CategoryResponded =>
        /\ (response.kind = "error" /\ response.status = 404) <=> (Matching = <<>>)
        /\ Matching # <<>> =>
            /\ response.kind = "category"
            /\ DetailOverMatching
            /\ RecentAreLatest

\* The statement above where it does hold: for matching transactions whose
\* timestamps are all without an offset or all with one.
C14_HoldsForUniformTimestamps ==
    (CategoryResponded /\ datetimelike(Matching, now)) =>
        /\ (response.kind = "error" /\ response.status = 404) <=> (Matching = <<>>)
        /\ Matching # <<>> =>
            /\ response.kind = "category"
            /\ DetailOverMatching
            /\ RecentAreLatest

\* Six matching transactions over several dates, the oldest left out.
C14_RecentCapped ==
    /\ response.kind = "category"
    /\ Len(Matching) = 6
    /\ Len(Detail.recent_transactions) = 5
    /\ Detail.recent_transactions[1].date > Detail.recent_transactions[5].date
    /\ \E i \in 1..5 : MatchingDay(i) < MatchingDay(6)

(***************************************************************************)
(* C15.  Whenever the generative backend is missing, cannot be             *)
(* initialised, raises on a call or returns a malformed reply, get_advice  *)
(* and chat return the text of the rule-based path for the same input, and *)
(* no backend failure reaches the caller as an error.  The code lets one   *)
(* malformed reply through: a message whose content is None is returned    *)
(* as the answer, and the response model rejects it.                       *)
(***************************************************************************)
AdviceResponded ==
    \/ response.kind = "advice"
    \/ response.kind = "error" /\ response.op = "get_financial_advice"

ChatResponded ==
    \/ response.kind = "chat"
    \/ response.kind = "error" /\ response.op = "chat_with_agent"

\* The backend gave no text on this call: it is not there, or it failed.
BackendFailed ==
    \/ ~agent.openai_available
    \/ response.reply \in {"raises", "no_choices", "no_content"}

RuleBasedAdvice == _get_rule_based_advice(inquiry.financial_data)

RuleBasedChat == _rule_based_chat(inquiry.message, inquiry.context)

\* C15: on every backend failure the caller gets the rule-based text, never an
\* error.
C15_BackendFailureFallsBack ==
    /\ (AdviceResponded /\ BackendFailed) =>
        (response.kind = "advice" /\ response.advice = RuleBasedAdvice)
    /\ (ChatResponded /\ BackendFailed) =>
        (response.kind = "chat" /\ response.response = RuleBasedChat)

\* The statement above where it does hold: for every failure but a reply
\* whose message has no content.
C15_HoldsUnlessNoContent ==
    /\ (AdviceResponded /\ BackendFailed /\ response.reply # "no_content") =>
        (response.kind = "advice" /\ response.advice = RuleBasedAdvice)
    /\ (ChatResponded /\ BackendFailed /\ response.reply # "no_content") =>
        (response.kind = "chat" /\ response.response = RuleBasedChat)

\* A call that raised, answered by the rules with several parts.
C15_FallbackAfterRaise ==
    /\ response.kind = "advice"
    /\ agent.openai_available
    /\ response.reply = "raises"
    /\ Len(response.advice.parts) >= 3
    /\ response.advice = RuleBasedAdvice

(***************************************************************************)
(* C16.  On the trend-fit path spending_trend is "increasing" if and only  *)
(* if the least-squares slope of the monthly expense totals against the    *)
(* zero-based month index is strictly above 50, "decreasing" if and only   *)
(* if it is strictly below -50, and "stable" otherwise, at exactly 50 and  *)
(* -50 too.                                                                *)
(***************************************************************************)
\* The slope as covariance over variance, Sxy / Sxx, with
\* Sxy = Sum (n x - Sum x)(n y - Sum y) and Sxx = Sum (n x - Sum x)^2 over the
\* points (x, y) = (i - 1, MonthlySpending[i]), in whole currency units.
SlopeSxy ==
    LET n  == Len(MonthlySpending)
        y  == [i \in 1..n |-> MonthlySpending[i] \div Currency(1)]
        sx == SumSeq([i \in 1..n |-> i - 1])
        sy == SumSeq(y)
    IN  SumSeq([i \in 1..n |-> (n * (i - 1) - sx) * (n * y[i] - sy)])

SlopeSxx ==
    LET n  == Len(MonthlySpending)
        sx == SumSeq([i \in 1..n |-> i - 1])
    IN  SumSeq([i \in 1..n |-> (n * (i - 1) - sx) * (n * (i - 1) - sx)])

Trend == response.result.spending_trend

\* C16: "increasing" iff slope > 50, "decreasing" iff slope < -50, "stable"
\* otherwise, on the trend-fit path.
C16_TrendBySlopeThreshold ==
    (Forecasted /\ Len(MonthlySpending) >= 2) =>
        /\ (Trend = "increasing") <=> (SlopeSxy > 50 * SlopeSxx)
        /\ (Trend = "decreasing") <=> (SlopeSxy < -50 * SlopeSxx)
        /\ (Trend = "stable") <=>
                (SlopeSxy <= 50 * SlopeSxx /\ SlopeSxy >= -50 * SlopeSxx)

\* Totals of 100, 140 and 200: a slope of exactly 50, reported "stable".
C16_Witness ==
    /\ Forecasted
    /\ MonthlySpending = <<Currency(100), Currency(140), Currency(200)>>
    /\ SlopeSxy = 50 * SlopeSxx
    /\ Trend = "stable"

\* Totals of 100 and 200: a slope of 100, reported "increasing".
C16_Increasing ==
    /\ Forecasted
    /\ MonthlySpending = <<Currency(100), Currency(200)>>
    /\ Trend = "increasing"

(***************************************************************************)
(* C17.  On the trend-fit path exactly one advice is chosen, by the first  *)
(* rule that matches: savings rate < 10, cut discretionary spending; else  *)
(* < 20, increase savings; else trend "increasing", rising-spend warning;  *)
(* else trend "decreasing", reinforcement; else invest the surplus.  So    *)
(* the trend matters only from a rate of 20 on, and a history without      *)
(* income (rate 0) gets the first advice.                                  *)
(***************************************************************************)
Incomes == rows_of_type(Frame, "INCOME")

IncomeMonths == {Incomes[i].month : i \in 1..Len(Incomes)}

\* The savings rate (avg income - avg spending) / avg income * 100 is below
\* r: with avg income = ti / mi > 0 and avg spending = te / me, that is
\* (100 - r) ti me < 100 te mi; without income the rate is 0.
SavingsRateBelow(r) ==
    LET ti == amount_sum(Incomes) \div Currency(1)
        te == amount_sum(Expenses) \div Currency(1)
        mi == Cardinality(IncomeMonths)
        me == Cardinality(ExpenseMonths)
    IN  IF ti > 0 THEN (100 - r) * ti * me < 100 * te * mi ELSE 0 < r

Advice == response.result.advice

\* C17: the advice of the trend-fit path is that of the first matching rule,
\* the savings-rate rules before the trend rules.
C17_AdviceFirstMatch ==
    (Forecasted /\ Len(MonthlySpending) >= 2) =>
        /\ Advice =
            (IF SavingsRateBelow(10) THEN "Your savings rate is low."
             ELSE IF SavingsRateBelow(20) THEN "You're saving a decent amount."
             ELSE IF Trend = "increasing" THEN "Your spending is trending upward."
             ELSE IF Trend = "decreasing"
             THEN "Great job! Your spending is decreasing."
             ELSE "Your finances look stable.")
        /\ Incomes = <<>> => Advice = "Your savings rate is low."

\* A rising trend with a savings rate of exactly 10: the increase-savings
\* advice, not the rising-spend warning.
C17_Witness ==
    /\ Forecasted
    /\ Len(MonthlySpending) >= 2
    /\ Trend = "increasing"
    /\ ~SavingsRateBelow(10)
    /\ SavingsRateBelow(20)
    /\ Advice = "You're saving a decent amount."

(***************************************************************************)
(* C18.  For a non-empty list, insights holds one message for every rule   *)
(* whose condition holds, all of them and not only the first, in the order *)
(* of the rules: top category, savings rate, month-over-month change,      *)
(* outlier count; the outlier message is there if and only if              *)
(* unusual_transactions is non-empty, and reports its length.              *)
(***************************************************************************)
SavingsInsights ==
    {"You're spending more than you earn.", "Try to aim for 20% or more.",
     "Great job! You're saving"}

MonthlyInsights ==
    {"Your spending increased by more than 20%",
     "Your spending decreased by more than 20%"}

\* The rule a message comes from, 1 to 4.
RuleOf(text) ==
    IF text = "Your highest spending category is" THEN 1
    ELSE IF text \in SavingsInsights THEN 2
    ELSE IF text \in MonthlyInsights THEN 3
    ELSE IF text = OutlierInsight THEN 4
    ELSE 0

\* The condition of each rule, from the input and the rest of the result.
RuleMatches(r) ==
    IF r = 1 THEN Expenses # <<>>
    ELSE IF r = 2 THEN amount_sum(Incomes) > 0
    ELSE IF r = 3
    THEN /\ Len(Monthly) >= 2
         /\ LET recent == Monthly[Len(Monthly)].total_spending
                prev   == Monthly[Len(Monthly) - 1].total_spending
            IN  10 * recent > 12 * prev \/ 10 * recent < 8 * prev
    ELSE Unusual # <<>>

\* C18: one message per matching rule, in rule order, the outlier message
\* reporting the length of unusual_transactions.
C18_AllMatchingRulesInOrder ==
    (Analyzed /\ transactions # <<>>) =>
        /\ \A k \in 1..Len(Insights) : RuleOf(Insights[k].text) \in 1..4
        /\ \A k, l \in 1..Len(Insights) :
            k < l => RuleOf(Insights[k].text) < RuleOf(Insights[l].text)
        /\ \A r \in 1..4 :
            RuleMatches(r) <=>
                (\E k \in 1..Len(Insights) : RuleOf(Insights[k].text) = r)
        /\ \A k \in 1..Len(Insights) :
            Insights[k].text = OutlierInsight =>
                Insights[k].args = <<Len(Unusual)>>

\* All four rules match, and give four messages.
C18_Witness ==
    /\ Analyzed
    /\ \A r \in 1..4 : RuleMatches(r)
    /\ Len(Insights) = 4
    /\ Insights[4].args = <<1>>

(***************************************************************************)
(* C19.  For a non-empty list there is exactly one savings-rate insight    *)
(* when total income > 0 and none when it is 0; with rate = (total income  *)
(* - total expenses) / total income x 100 it is the warning iff rate < 0,  *)
(* aim-for-20% iff 0 <= rate < 20, and the positive message iff rate >=    *)
(* 20.                                                                     *)
(***************************************************************************)
TotalIncome == amount_sum(Incomes) \div Currency(1)

TotalExpenses == amount_sum(Expenses) \div Currency(1)

\* The savings-rate insights of the result, in order.
SavingsGiven ==
    SelectSeq([k \in 1..Len(Insights) |-> Insights[k].text],
              LAMBDA t : t \in SavingsInsights)

\* rate < r, for total income > 0: 100 (income - expenses) < r income.
RateBelow(r) == 100 * (TotalIncome - TotalExpenses) < r * TotalIncome

\* C19: one savings-rate insight when total income > 0, chosen by the rate
\* against 0 and 20; none without income.
C19_SavingsInsightByRate ==
    (Analyzed /\ transactions # <<>>) =>
        /\ TotalIncome = 0 => SavingsGiven = <<>>
        /\ TotalIncome > 0 =>
            SavingsGiven =
                (IF RateBelow(0) THEN <<"You're spending more than you earn.">>
                 ELSE IF RateBelow(20) THEN <<"Try to aim for 20% or more.">>
                 ELSE <<"Great job! You're saving">>)

\* Income 100 and expenses 80: a rate of exactly 20, the positive message.
C19_Witness ==
    /\ Analyzed
    /\ TotalIncome = 100
    /\ TotalExpenses = 80
    /\ SavingsGiven = <<"Great job! You're saving">>

\* Income 100 and expenses 100: a rate of exactly 0, the aim-for-20% message.
C19_RateZero ==
    /\ Analyzed
    /\ TotalIncome = 100
    /\ TotalExpenses = 100
    /\ SavingsGiven = <<"Try to aim for 20% or more.">>

(***************************************************************************)
(* C20.  The month-over-month insight compares the expense totals of the   *)
(* two chronologically latest entries of monthly_breakdown (months with    *)
(* any transaction, income-only months counting with expense 0): increased *)
(* iff latest > previous x 1.2, decreased iff latest < previous x 0.8,     *)
(* never both, and none otherwise or with fewer than 2 entries.            *)
(***************************************************************************)
\* The months that hold a transaction, ascending.
MonthsOfFrame == SortedSeq({Frame[i].month : i \in 1..Len(Frame)})

\* What month m spent, in whole currency units.
SpentInMonth(m) ==
    amount_sum(SelectSeq(Expenses, LAMBDA r : r.month = m)) \div Currency(1)

\* The month-over-month insights of the result, in order.
MonthlyGiven ==
    SelectSeq([k \in 1..Len(Insights) |-> Insights[k].text],
              LAMBDA t : t \in MonthlyInsights)

\* C20: the two latest months with any transaction are compared; more than
\* 1.2 times the previous gives "increased", less than 0.8 times "decreased",
\* anything else and fewer than 2 months nothing.
C20_MonthOverMonth ==
    (Analyzed /\ transactions # <<>>) =>
        LET n == Len(MonthsOfFrame)
        IN  /\ Len(Monthly) = n
            /\ \A k \in 1..n :
                /\ Monthly[k].month = MonthLabel(MonthsOfFrame[k])
                /\ Monthly[k].total_spending = 100 * SpentInMonth(MonthsOfFrame[k])
            /\ n < 2 => MonthlyGiven = <<>>
            /\ n >= 2 =>
                LET latest   == SpentInMonth(MonthsOfFrame[n])
                    previous == SpentInMonth(MonthsOfFrame[n - 1])
                IN  MonthlyGiven =
                        (IF 10 * latest > 12 * previous
                         THEN <<"Your spending increased by more than 20%">>
                         ELSE IF 10 * latest < 8 * previous
                         THEN <<"Your spending decreased by more than 20%">>
                         ELSE <<>>)

\* Three months: spending of 100, then an income-only month, then 80:
\* 80 against 0 is an increase.
C20_Witness ==
    /\ Analyzed
    /\ Len(MonthsOfFrame) = 3
    /\ SpentInMonth(MonthsOfFrame[1]) = 100
    /\ SpentInMonth(MonthsOfFrame[2]) = 0
    /\ SpentInMonth(MonthsOfFrame[3]) = 80
    /\ MonthlyGiven = <<"Your spending increased by more than 20%">>

\* 100 then 120, and 100 then 80: exactly 1.2 and 0.8 times, no message.
C20_AtTheRatios ==
    /\ Analyzed
    /\ Len(MonthsOfFrame) = 2
    /\ SpentInMonth(MonthsOfFrame[1]) = 100
    /\ SpentInMonth(MonthsOfFrame[2]) \in {80, 120}
    /\ MonthlyGiven = <<>>

(***************************************************************************)
(* C21.  As stated: all forecast points carry the same predicted_income,   *)
(* the reported average_monthly_income, and each predicted_savings equals  *)
(* predicted_income minus predicted_spending, negative (not floored at 0)  *)
(* when spending exceeds income.  On the trend-fit path the three values   *)
(* are rounded separately, so the equality holds only up to 0.01.          *)
(***************************************************************************)
\* predicted_savings - (predicted_income - predicted_spending) of point k.
SavingsGap(k) ==
    RatSub(Forecasts[k].predicted_savings,
           RatSub(Forecasts[k].predicted_income, Forecasts[k].predicted_spending))

IncomeHeldConstant ==
    \A k \in 1..Len(Forecasts) :
        Forecasts[k].predicted_income = response.result.average_monthly_income

\* C21 as stated: a constant predicted_income, and predicted_savings equal to
\* predicted_income - predicted_spending.
C21_Original ==
    Forecasted =>
        /\ IncomeHeldConstant
        /\ \A k \in 1..Len(Forecasts) : SavingsGap(k) = <<0, 1>>

\* C21, amended: a constant predicted_income, the reported average; the
\* predicted_savings is predicted_income - predicted_spending exactly on the
\* insufficient-history path and within 0.01 of it on the trend-fit path,
\* and it is not floored: it is negative when the reported spending exceeds
\* the reported income by more than 0.01.
C21_SavingsWithinOneCent ==
    Forecasted =>
        /\ IncomeHeldConstant
        /\ \A k \in 1..Len(Forecasts) :
            /\ Len(MonthlySpending) < 2 => SavingsGap(k) = <<0, 1>>
            /\ ~RatLess(<<1, 1>>, SavingsGap(k))
            /\ ~RatLess(SavingsGap(k), <<-1, 1>>)
            /\ RatLess(<<1, 1>>, RatSub(Forecasts[k].predicted_spending,
                                        Forecasts[k].predicted_income))
                => Forecasts[k].predicted_savings[1] < 0

\* The trend-fit path with an income: a point whose negative savings is 0.01
\* off the difference of its income and spending.
C21_Witness ==
    /\ Forecasted
    /\ Len(MonthlySpending) >= 2
    /\ \E k \in 1..Len(Forecasts) :
        /\ Forecasts[k].predicted_income[1] > 0
        /\ Forecasts[k].predicted_savings[1] < 0
        /\ SavingsGap(k) # <<0, 1>>

(***************************************************************************)
(* C22.  Income never influences the expense forecast: two non-empty       *)
(* lists with the same EXPENSE transactions yield the same spending_trend, *)
(* average_monthly_spending and, point by point, predicted_spending and    *)
(* confidence bounds.  The request's outcome is compared with the outcome  *)
(* for the same expenses beside other incomes.  The code fails the whole   *)
(* request when an income's timestamp carries an offset and an expense's   *)
(* does not (or the reverse), so an income does decide the outcome.        *)
(***************************************************************************)
\* What POST /forecast answers to the list txs for the horizon months.
ForecastOutcome(txs, months) ==
    IF datetimelike(txs, now)
    THEN [kind            |-> "forecast",
          forecast_months |-> months,
          result          |-> calculate_forecast(txs, months, now)]
    ELSE [kind |-> "error", op |-> "get_forecast", status |-> 500]

\* The spending side of an outcome.
SpendingView(outcome) ==
    IF outcome.kind = "forecast"
    THEN [spending_trend           |-> outcome.result.spending_trend,
          average_monthly_spending |-> outcome.result.average_monthly_spending,
          points |->
              [k \in 1..Len(outcome.result.forecasts) |->
                  [predicted_spending |-> outcome.result.forecasts[k].predicted_spending,
                   confidence_lower   |-> outcome.result.forecasts[k].confidence_lower,
                   confidence_upper   |-> outcome.result.forecasts[k].confidence_upper]]]
    ELSE [failed |-> outcome.status]

\* Incomes to put beside the request's expenses.
OtherIncomes ==
    [type : {"INCOME"}, category : {NoCategory}, amount : {Currency(70)},
     date : {Jan15, IsoZDate(45), BadDate}]

\* The non-empty lists of the request's EXPENSE transactions and at most one
\* other income.
SameExpensesOtherIncome ==
    LET expenses == SelectSeq(transactions, LAMBDA t : t.type = "EXPENSE")
    IN  {l \in {expenses} \cup
               {Append(expenses, [id          |-> Len(transactions) + 1,
                                  description |-> "tx",
                                  amount      |-> inc.amount,
                                  type        |-> inc.type,
                                  category    |-> inc.category,
                                  date        |-> inc.date]) : inc \in OtherIncomes} :
            l # <<>>}

ForecastResponded ==
    \/ response.kind = "forecast"
    \/ response.kind = "error" /\ response.op = "get_forecast"

\* The horizon of the request answered by response.
RequestedMonths ==
    IF response.kind = "forecast" THEN response.forecast_months ELSE 0

\* C22: whatever incomes stand beside the same expenses, the spending side of
\* the forecast is the same.
C22_IncomeNeverInfluencesSpending ==
    (ForecastResponded /\ transactions # <<>>) =>
        \A other \in SameExpensesOtherIncome :
            SpendingView(ForecastOutcome(other, RequestedMonths))
                = SpendingView(response)

\* The statement above where it does hold: between lists whose timestamps
\* are all without an offset or all with one.
C22_HoldsForUniformTimestamps ==
    (Forecasted /\ transactions # <<>>) =>
        \A other \in SameExpensesOtherIncome :
            datetimelike(other, now) =>
                SpendingView(ForecastOutcome(other, RequestedMonths))
                    = SpendingView(response)

\* A trend-fit forecast of a request with an income, compared with the same
\* expenses beside no income and beside another one.
C22_IncomeChanged ==
    /\ Forecasted
    /\ Len(MonthlySpending) >= 2
    /\ Len(Forecasts) >= 1
    /\ \E i \in 1..Len(transactions) : transactions[i].type = "INCOME"
    /\ \E other \in SameExpensesOtherIncome :
        /\ datetimelike(other, now)
        /\ ForecastOutcome(other, RequestedMonths).result.average_monthly_income
             # response.result.average_monthly_income

(***************************************************************************)
(* C23.  When the list contains EXPENSE transactions whose amounts sum to  *)
(* zero, analyze_transactions raises no error and reports                  *)
(* percentage_of_total = 0 for every entry of the non-empty                *)
(* category_breakdown.  The division is guarded; the request still fails   *)
(* when the timestamps mix values with and without an offset.              *)
(***************************************************************************)
ZeroSumExpenses == Expenses # <<>> /\ amount_sum(Expenses) = 0

AllPercentagesZero ==
    /\ Breakdown # <<>>
    /\ \A k \in 1..Len(Breakdown) : Breakdown[k].percentage_of_total = 0

\* C23: expenses summing to zero give a result, never an error, whose
\* category entries all carry percentage_of_total = 0.
C23_ZeroSumIsNoError ==
    (AnalyzeResponded /\ ZeroSumExpenses) =>
        /\ response.kind = "analysis"
        /\ AllPercentagesZero

\* The statement above where it does hold: for timestamps all without an
\* offset or all with one.
C23_HoldsForUniformTimestamps ==
    (AnalyzeResponded /\ ZeroSumExpenses /\ datetimelike(transactions, now)) =>
        /\ response.kind = "analysis"
        /\ AllPercentagesZero

\* Two categories whose amounts cancel: totals 0.05 and -0.05.
C23_CancellingAmounts ==
    /\ Analyzed
    /\ ZeroSumExpenses
    /\ Len(Breakdown) = 2
    /\ Breakdown[1].total_spent > 0
    /\ Breakdown[2].total_spent < 0

(***************************************************************************)
(* C24.  A transaction whose timestamp cannot be parsed is never dropped   *)
(* and never causes an error: it is bucketed in the month of the current   *)
(* processing time, so total_transactions is the input length, every       *)
(* EXPENSE is counted in one category entry and one month entry, and the   *)
(* category totals and the monthly expense totals each add up to           *)
(* total_expenses.  The fallback time carries no offset: beside a          *)
(* timestamp that has one, the request fails.                              *)
(***************************************************************************)
\* The positions of the request's transactions that cannot be parsed.
Unparseable == {i \in 1..Len(transactions) : transactions[i].date = BadDate}

\* The EXPENSE transactions of the request, as sent.
SentExpenses == SelectSeq(transactions, LAMBDA t : t.type = "EXPENSE")

CategoryTotalSum ==
    SumSeq([k \in 1..Len(Breakdown) |-> Breakdown[k].total_spent])

CategoryCountSum ==
    SumSeq([k \in 1..Len(Breakdown) |-> Breakdown[k].transaction_count])

MonthlySpendingSum ==
    SumSeq([k \in 1..Len(Monthly) |-> Monthly[k].total_spending])

\* The entry of the month of the processing time holds the expenses that
\* cannot be parsed beside those dated in that month.
BucketedNow ==
    Unparseable # {} =>
        \E k \in 1..Len(Monthly) :
            /\ Monthly[k].month = MonthLabel(MonthOf(now))
            /\ Monthly[k].total_spending >=
                Round2(SumSeq([i \in 1..Len(transactions) |->
                          IF i \in Unparseable /\ transactions[i].type = "EXPENSE"
                          THEN transactions[i].amount ELSE 0]), 1)

NothingDropped ==
    /\ response.result.total_transactions = Len(transactions)
    /\ CategoryCountSum = Len(SentExpenses)
    /\ response.result.total_expenses =
        Round2(SumSeq([i \in 1..Len(SentExpenses) |-> SentExpenses[i].amount]), 1)
    /\ CategoryTotalSum = response.result.total_expenses
    /\ MonthlySpendingSum = response.result.total_expenses

\* C24: no list fails for a timestamp; the unparseable ones are bucketed in
\* the month of the processing time and every transaction is accounted for.
C24_UnparseableNeverFails ==
    AnalyzeResponded =>
        /\ response.kind = "analysis"
        /\ BucketedNow
        /\ NothingDropped

\* The statement above where it does hold: for timestamps that, the fallback
\* included, are all without an offset or all with one, and amounts in whole
\* hundredths.
C24_HoldsForUniformTimestamps ==
    (AnalyzeResponded /\ datetimelike(transactions, now)) =>
        /\ response.kind = "analysis"
        /\ BucketedNow
        /\ NothingDropped

\* An unparseable expense beside a dated one, in two month entries.
C24_BucketedBesideDated ==
    /\ Analyzed
    /\ Len(Monthly) = 2
    /\ \E i \in Unparseable : transactions[i].type = "EXPENSE"
    /\ \E i \in 1..Len(transactions) :
        /\ i \notin Unparseable
        /\ transactions[i].type = "EXPENSE"

(***************************************************************************)
(* C25.  Analyze and category detail agree on category labels: every       *)
(* label of analyze's category_breakdown, "Uncategorized" included, is      *)
(* found by the category detail on the same list.  Analyze substitutes     *)
(* "Uncategorized" for an absent category; the detail compares the         *)
(* category as sent, so it finds no transaction under that label.          *)
(***************************************************************************)
\* The labels of the category_breakdown POST /analyze gives for the request.
AnalyzeLabels ==
    IF datetimelike(transactions, now)
    THEN LET breakdown == analyze_transactions(transactions, now).category_breakdown
         IN  {breakdown[k].category : k \in 1..Len(breakdown)}
    ELSE {}

NotFound == response.kind = "error" /\ response.status = 404

\* C25: the detail of a label of analyze's breakdown is never not-found.
C25_BreakdownLabelsAreFound ==
    (CategoryResponded /\ response.category \in AnalyzeLabels) => ~NotFound

\* The statement above where it does hold: for the labels that transactions
\* carry as sent.
C25_HoldsForLabelsAsSent ==
    (CategoryResponded /\ response.category \in AnalyzeLabels
        /\ response.category # "Uncategorized") => ~NotFound

\* The detail of a label of the breakdown, found.
C25_LabelFound ==
    /\ response.kind = "category"
    /\ response.category \in AnalyzeLabels
    /\ Cardinality(AnalyzeLabels) = 2

(***************************************************************************)
(* C26.  As stated: for every list with total income > 0 and at least one  *)
(* expense, analyze's savings rate (total income - total expenses) / total *)
(* income is negative if and only if the forecast's savings_rate (average  *)
(* monthly income - average monthly spending) / average monthly income is  *)
(* negative.  The averages are taken over the months that hold an income   *)
(* and over the months that hold an expense, which may differ in number.   *)
(***************************************************************************)
IncomeAndExpense == amount_sum(Incomes) > 0 /\ Expenses # <<>>

\* (total income - total expenses) / total income < 0, for total income > 0.
AnalyzeRateNegative == amount_sum(Incomes) < amount_sum(Expenses)

ForecastRate == response.result.savings_rate

\* C26 as stated: the two rates are negative together.
C26_Original ==
    (Forecasted /\ IncomeAndExpense) =>
        (AnalyzeRateNegative <=> ForecastRate[1] < 0)

\* C26, amended: the forecast's savings_rate is negative only if the income
\* per month that holds an income is below the spending per month that holds
\* an expense, and it is not positive if so; it agrees with analyze's sign
\* when as many months hold an income as hold an expense (a negative rate
\* that rounds to 0.00 is reported as zero).
C26_SameSignOverSameMonths ==
    (Forecasted /\ IncomeAndExpense) =>
        LET mi == Cardinality(IncomeMonths)
            me == Cardinality(ExpenseMonths)
            below == amount_sum(Incomes) * me < amount_sum(Expenses) * mi
        IN  /\ ForecastRate[1] < 0 => below
            /\ below => ForecastRate[1] <= 0
            /\ mi = me =>
                /\ ForecastRate[1] < 0 => AnalyzeRateNegative
                /\ AnalyzeRateNegative => ForecastRate[1] <= 0

\* An income in one month and a larger expense in another: both rates
\* negative.
C26_Witness ==
    /\ Forecasted
    /\ IncomeAndExpense
    /\ Cardinality(IncomeMonths) = Cardinality(ExpenseMonths)
    /\ IncomeMonths # ExpenseMonths
    /\ AnalyzeRateNegative
    /\ ForecastRate[1] < 0

(***************************************************************************)
(* C27.  The ai_generated flag of the advice response is true only if the  *)
(* advice text of that response was produced by the generative backend;    *)
(* whenever the text came from the rule-based path (backend absent, or the *)
(* call failed and fell back) the flag is false.  The handler sets the     *)
(* flag from the agent's availability, not from what the call returned.    *)
(***************************************************************************)
\* The text of the response is the backend's.
FromBackend ==
    /\ agent.openai_available
    /\ response.reply = "text"
    /\ response.advice = GeneratedText

\* The text of the response came from the rule-based path.
FromRules ==
    /\ ~agent.openai_available \/ response.reply \in {"raises", "no_choices"}
    /\ response.advice = RuleBasedAdvice

\* C27: ai_generated only beside a generated text, and false beside a
\* rule-based one.
C27_FlagOnlyForGeneratedText ==
    response.kind = "advice" =>
        /\ response.ai_generated => FromBackend
        /\ FromRules => ~response.ai_generated

\* The statement above where it does hold: when the backend is absent, or
\* its call returned a text.
C27_HoldsUnlessFallback ==
    (response.kind = "advice" /\ response.reply \in {"unasked", "text"}) =>
        /\ response.ai_generated => FromBackend
        /\ FromRules => ~response.ai_generated

\* A generated text, flagged.
C27_GeneratedAndFlagged ==
    /\ response.kind = "advice"
    /\ FromBackend
    /\ response.ai_generated

(***************************************************************************)
(* C28.  The trend fit uses only the months that contain an EXPENSE,       *)
(* indexed 0, 1, 2, ... in chronological order, without zero-filling: two  *)
(* lists whose expense months have the same sequence of monthly totals     *)
(* yield the same slope, spending_trend and predicted_spending, whatever   *)
(* calendar gaps lie between those months, and the forecast indices        *)
(* continue from the number of observed expense months.  The request is    *)
(* compared with its expenses moved to consecutive months.                 *)
(***************************************************************************)
\* The number of expense months before month m.
ExpenseMonthRank(m) == Cardinality({x \in ExpenseMonths : x < m})

ConsecutiveMonths == <<Jan15, Feb15, Mar15>>

\* The request with the k-th expense month moved to the k-th month of 2024.
Compacted ==
    [i \in 1..Len(transactions) |->
        IF transactions[i].type = "EXPENSE"
        THEN [transactions[i] EXCEPT
                !.date = ConsecutiveMonths[ExpenseMonthRank(Frame[i].month) + 1]]
        ELSE transactions[i]]

\* An expense month of the request is followed by a month without expense.
CalendarGap ==
    \E m \in ExpenseMonths :
        /\ m + 1 \notin ExpenseMonths
        /\ \E x \in ExpenseMonths : x > m + 1

\* The fitted line at index x, in hundredths: mean(y) + slope (x - mean(X))
\* over the points (i - 1, MonthlySpending[i]).
FittedAt(x) ==
    LET n  == Len(MonthlySpending)
        sx == SumSeq([i \in 1..n |-> i - 1])
        sy == SumSeq([i \in 1..n |-> MonthlySpending[i] \div Currency(1)])
    IN  RatAdd(Rat(100 * sy, n),
               RatMul(Rat(SlopeSxy, SlopeSxx), Rat(100 * (n * x - sx), n)))

\* C28: on the trend-fit path, the expenses moved to consecutive months give
\* the same monthly series, slope, spending_trend and predicted_spending,
\* and point k is the fitted line at index (number of expense months) + k - 1,
\* floored at 0.
C28_FitOverExpenseMonthsOnly ==
    (Forecasted /\ Cardinality(ExpenseMonths) >= 2) =>
        LET n      == Cardinality(ExpenseMonths)
            series == monthly_totals(transactions_to_dataframe(Compacted, now),
                                     "EXPENSE")
            other  == calculate_forecast(Compacted, response.forecast_months, now)
        IN  /\ series = MonthlySpending
            /\ Len(MonthlySpending) = n
            /\ regression(series).num * SlopeSxx
                 = SlopeSxy * Currency(1) * regression(series).den
            /\ other.spending_trend = Trend
            /\ Len(other.forecasts) = Len(Forecasts)
            /\ \A k \in 1..Len(Forecasts) :
                /\ other.forecasts[k].predicted_spending
                     = Forecasts[k].predicted_spending
                /\ Forecasts[k].predicted_spending
                     = RatRound(RatMax0(FittedAt(n + k - 1)))

\* Expenses in January and March only, rising: two points on the line
\* through indices 0 and 1.
C28_Witness ==
    /\ Forecasted
    /\ Cardinality(ExpenseMonths) = 2
    /\ CalendarGap
    /\ Len(Forecasts) = 2
    /\ MonthlySpending[1] < MonthlySpending[2]
    /\ Forecasts[1].predicted_spending # Forecasts[2].predicted_spending

(***************************************************************************)
(* C29.  As stated: for every list analyze_patterns returns a risk_score   *)
(* that is an integer in 1..10 (5 for the empty list), obtained from 5 by  *)
(* +2 when expenses exceed income or -2 when expenses are below 70% of     *)
(* income, plus the negative patterns minus the positive ones, clamped;    *)
(* and spending_personality is "Balanced Spender" whenever no pattern was  *)
(* detected.  The code compares expenses and income only when the expenses *)
(* are positive and there is an income transaction, and it calls the       *)
(* personality of the empty list "Unknown".                                *)
(***************************************************************************)
PatternsResponded == response.kind = "patterns"

Patterns == response.result.patterns

RiskScore == response.result.risk_score

Personality == response.result.spending_personality

NegativePatterns ==
    Cardinality({k \in 1..Len(Patterns) : Patterns[k].impact = "negative"})

PositivePatterns ==
    Cardinality({k \in 1..Len(Patterns) : Patterns[k].impact = "positive"})

\* The positions of the expenses and of the other transactions, as sent.
SentExpenseIds == {i \in 1..Len(transactions) : transactions[i].type = "EXPENSE"}

SentIncomeIds == (1..Len(transactions)) \ SentExpenseIds

SentSpending ==
    SumSeq([i \in 1..Len(transactions) |->
               IF i \in SentExpenseIds THEN transactions[i].amount ELSE 0])

SentIncome ==
    SumSeq([i \in 1..Len(transactions) |->
               IF i \in SentIncomeIds THEN transactions[i].amount ELSE 0])

\* +2 when expenses exceed income, -2 when they are below 70% of it.
ByTotals ==
    IF SentSpending > SentIncome THEN 2
    ELSE IF 10 * SentSpending < 7 * SentIncome THEN -2
    ELSE 0

Clamped(x) == IF x < 1 THEN 1 ELSE IF x > 10 THEN 10 ELSE x

\* C29 as stated: the comparison of the totals counts for every list, and no
\* pattern means "Balanced Spender" for every list.
C29_Original ==
    PatternsResponded =>
        /\ RiskScore \in 1..10
        /\ transactions = <<>> => RiskScore = 5
        /\ RiskScore = Clamped(5 + ByTotals + NegativePatterns - PositivePatterns)
        /\ Patterns = <<>> => Personality = "Balanced Spender"

\* C29, amended: the risk_score is in 1..10, 5 for the empty list; for a
\* non-empty list it is 5, +2 or -2 by the totals only when the expenses are
\* positive and the list holds an income transaction, plus the negative
\* patterns minus the positive ones, clamped; without any pattern the
\* personality is "Balanced Spender" for a non-empty list, whatever the
\* score, and "Unknown" for the empty one.
C29_RiskScoreAndPersonality ==
    PatternsResponded =>
        /\ RiskScore \in 1..10
        /\ transactions = <<>> =>
            /\ RiskScore = 5
            /\ Patterns = <<>>
            /\ Personality = "Unknown"
        /\ transactions # <<>> =>
            /\ RiskScore =
                Clamped(5 + (IF SentSpending > 0 /\ SentIncomeIds # {}
                             THEN ByTotals ELSE 0)
                          + NegativePatterns - PositivePatterns)
            /\ Patterns = <<>> => Personality = "Balanced Spender"

\* Expenses of 100 in three categories beside an income of 100: no pattern,
\* a score of 7, and still "Balanced Spender".
C29_Witness ==
    /\ PatternsResponded
    /\ transactions # <<>>
    /\ Patterns = <<>>
    /\ RiskScore = 7
    /\ Personality = "Balanced Spender"

\* A stable income well above the spending: the score of 2, below 5.
C29_LowestScore ==
    /\ PatternsResponded
    /\ RiskScore = 2
    /\ PositivePatterns = 1

\* Five expenses, most of them on a weekend: the weekend pattern counts 1.
C29_WeekendSpender ==
    /\ PatternsResponded
    /\ \E k \in 1..Len(Patterns) : Patterns[k].pattern_type = "weekend_spender"
    /\ RiskScore = 6
=============================================================================
